---- MODULE Spec2Model ----
(***************************************************************************)
(* A model of go-gin-django-session: the Django-compatible signer          *)
(* (signer.go), the session client (client.go) and the Gin middleware      *)
(* (middleware.go).                                                        *)
(*                                                                         *)
(* Representation.                                                         *)
(*   - A Go string or []byte is a sequence of byte values 0..255.          *)
(*   - An int64 is four 16-bit limbs, least significant first, in two's    *)
(*     complement, so that the arithmetic wraps exactly as Go's does.      *)
(*   - An error is the chain of its messages, outermost first; the nil     *)
(*     error is the empty chain; errors.Is looks a sentinel up in the      *)
(*     chain.                                                              *)
(*   - A time.Time is [sec, nsec]; a time.Duration is [s, ns] with         *)
(*     0 <= ns < 10^9 (the floor representation of s + ns/10^9 seconds).   *)
(***************************************************************************)
EXTENDS Integers, Sequences, FiniteSets, TLC

VARIABLES
    now,        \* the wall clock, what time.Now() returns
    token,      \* the signed token last produced, with what it was made from
    res,        \* the call last made on the token and what it returned
    b62pc,      \* position of the base-62 codec exercise
    b62n,       \* the int64 handed to b62Encode
    b62enc,     \* the string b62Encode returned
    b62dec,     \* what b62Decode returned: [n, err]
    client,     \* the *Client NewClient returned, nil before
    db          \* the django_session table behind the client's DBTX

varsB62 == <<b62pc, b62n, b62enc, b62dec>>

varsSigner == <<now, token, res>>

varsClient == <<client, db>>

vars == <<now, token, res, b62pc, b62n, b62enc, b62dec, client, db>>

----------------------------------------------------------------------------
(* Errors *)

Nil == <<>>

NewError(msg) == <<msg>>

\* fmt.Errorf("msg: %w", err)
Wrap(msg, err) == <<msg>> \o err

\* errors.Is(err, target) for a sentinel target
ErrorsIs(err, target) == \E i \in 1..Len(err) : err[i] = target

ErrSessionNotFound == "session not found"

ErrSessionExpired == "session expired"

ErrInvalidSignature == "invalid session signature"

ErrUserNotFound == "user not found"

----------------------------------------------------------------------------
(* Strings *)

\* strings.IndexRune(s, r) for an ASCII r, as a 1-based position; 0 is Go's -1
IndexRune(s, c) ==
    IF \E i \in 1..Len(s) : s[i] = c
    THEN CHOOSE i \in 1..Len(s) : s[i] = c /\ \A j \in 1..(i-1) : s[j] # c
    ELSE 0

\* s[from:] and s[:to] with Go's 0-based half-open bounds
SliceFrom(s, from) == SubSeq(s, from + 1, Len(s))

SliceTo(s, to) == SubSeq(s, 1, to)

----------------------------------------------------------------------------
(* int64 *)

Limb == 2^16

HalfLimb == 2^15

Zero64 == <<0, 0, 0, 0>>

MinInt64 == <<0, 0, 0, 32768>>

MaxInt64 == <<65535, 65535, 65535, 32767>>

IsNeg64(x) == x[4] >= HalfLimb

IsZero64(x) == x = Zero64

\* x + 1 modulo 2^64
Inc64(x) ==
    LET c1 == IF x[1] = Limb - 1 THEN 1 ELSE 0
        c2 == IF c1 = 1 /\ x[2] = Limb - 1 THEN 1 ELSE 0
        c3 == IF c2 = 1 /\ x[3] = Limb - 1 THEN 1 ELSE 0
    IN  <<(x[1] + 1) % Limb, (x[2] + c1) % Limb, (x[3] + c2) % Limb, (x[4] + c3) % Limb>>

\* -x in two's complement: -MinInt64 = MinInt64
Neg64(x) == Inc64(<<Limb - 1 - x[1], Limb - 1 - x[2], Limb - 1 - x[3], Limb - 1 - x[4]>>)

\* int64(k) for a small integer k
I64(k) ==
    LET a == IF k < 0 THEN -k ELSE k
        m == <<a % Limb, a \div Limb, 0, 0>>
    IN  IF k < 0 THEN Neg64(m) ELSE m

\* the small integer an int64 holds (only for values within 31 bits)
Int64ToInt(x) ==
    LET m == IF IsNeg64(x) THEN Neg64(x) ELSE x
        a == m[1] + m[2] * Limb
    IN  IF IsNeg64(x) THEN -a ELSE a

FitsInt(x) ==
    LET m == IF IsNeg64(x) THEN Neg64(x) ELSE x
    IN  m[4] = 0 /\ m[3] = 0 /\ m[2] < HalfLimb

\* n / 62 and n % 62 for n > 0 (Go's truncated division agrees with the
\* unsigned long division there)
DivMod62(x) ==
    LET r4 == x[4] % 62
        q4 == x[4] \div 62
        t3 == r4 * Limb + x[3]
        t2 == (t3 % 62) * Limb + x[2]
        t1 == (t2 % 62) * Limb + x[1]
    IN  [q |-> <<t1 \div 62, t2 \div 62, t3 \div 62, q4>>, r |-> t1 % 62]

\* x*62 + d modulo 2^64
MulAdd62(x, d) ==
    LET p1 == x[1] * 62 + d
        p2 == x[2] * 62 + (p1 \div Limb)
        p3 == x[3] * 62 + (p2 \div Limb)
        p4 == x[4] * 62 + (p3 \div Limb)
    IN  <<p1 % Limb, p2 % Limb, p3 % Limb, p4 % Limb>>

----------------------------------------------------------------------------
(* Base 62 *)

\* "0123456789ABCDEFGHIJKLMNOPQRSTUVWXYZabcdefghijklmnopqrstuvwxyz"
base62Alphabet ==
    [i \in 1..62 |-> IF i <= 10 THEN 47 + i ELSE IF i <= 36 THEN 54 + i ELSE 60 + i]

RECURSIVE b62EncodeLoop(_, _)
b62EncodeLoop(n, encoded) ==
    IF ~IsNeg64(n) /\ ~IsZero64(n)
    THEN LET dm == DivMod62(n)
         IN  b62EncodeLoop(dm.q, <<base62Alphabet[dm.r + 1]>> \o encoded)
    ELSE encoded

b62Encode(n) ==
    IF IsZero64(n) THEN <<48>>
    ELSE LET sign == IF IsNeg64(n) THEN <<45>> ELSE <<>>
             m    == IF IsNeg64(n) THEN Neg64(n) ELSE n
         IN  sign \o b62EncodeLoop(m, <<>>)

RECURSIVE b62DecodeLoop(_, _, _)
b62DecodeLoop(s, i, decoded) ==
    IF i > Len(s) THEN [n |-> decoded, err |-> Nil]
    ELSE LET index == IndexRune(base62Alphabet, s[i])
         IN  IF index = 0
             THEN [n |-> Zero64, err |-> NewError("invalid base62 character")]
             ELSE b62DecodeLoop(s, i + 1, MulAdd62(decoded, index - 1))

b62Decode(s) ==
    IF s = <<48>> THEN [n |-> Zero64, err |-> Nil]
    ELSE LET neg  == Len(s) > 0 /\ s[1] = 45
             body == IF neg THEN SliceFrom(s, 1) ELSE s
             r    == b62DecodeLoop(body, 1, Zero64)
         IN  IF r.err # Nil THEN r
             ELSE [n |-> IF neg THEN Neg64(r.n) ELSE r.n, err |-> Nil]

----------------------------------------------------------------------------
(* Base 64, URL-safe alphabet *)

\* "ABCDEFGHIJKLMNOPQRSTUVWXYZabcdefghijklmnopqrstuvwxyz0123456789-_"
encodeURL ==
    [i \in 1..64 |-> IF i <= 26 THEN 64 + i
                     ELSE IF i <= 52 THEN 70 + i
                     ELSE IF i <= 62 THEN i - 5
                     ELSE IF i = 63 THEN 45 ELSE 95]

PadChar == 61

\* base64.URLEncoding.EncodeToString: 3 bytes to 4 characters, '=' padded
RECURSIVE EncodeToString(_)
EncodeToString(data) ==
    IF Len(data) = 0 THEN <<>>
    ELSE IF Len(data) = 1
    THEN <<encodeURL[(data[1] \div 4) + 1], encodeURL[(data[1] % 4) * 16 + 1],
           PadChar, PadChar>>
    ELSE IF Len(data) = 2
    THEN <<encodeURL[(data[1] \div 4) + 1],
           encodeURL[(data[1] % 4) * 16 + (data[2] \div 16) + 1],
           encodeURL[(data[2] % 16) * 4 + 1], PadChar>>
    ELSE <<encodeURL[(data[1] \div 4) + 1],
           encodeURL[(data[1] % 4) * 16 + (data[2] \div 16) + 1],
           encodeURL[(data[2] % 16) * 4 + (data[3] \div 64) + 1],
           encodeURL[(data[3] % 64) + 1]>> \o EncodeToString(SubSeq(data, 4, Len(data)))

\* strings.TrimRight(s, "=")
RECURSIVE TrimRightPad(_)
TrimRightPad(s) ==
    IF Len(s) > 0 /\ s[Len(s)] = PadChar THEN TrimRightPad(SubSeq(s, 1, Len(s) - 1)) ELSE s

b64Encode(data) == TrimRightPad(EncodeToString(data))

\* strings.Repeat("=", k)
Repeat(c, k) == [i \in 1..k |-> c]

\* the 6-bit value of a character, -1 outside the alphabet
DecodeMap(c) == IndexRune(encodeURL, c) - 1

\* the input with the '\r' and '\n' the decoder skips taken out
RECURSIVE StripNewlines(_)
StripNewlines(s) ==
    IF Len(s) = 0 THEN <<>>
    ELSE IF s[1] \in {10, 13} THEN StripNewlines(Tail(s))
    ELSE <<s[1]>> \o StripNewlines(Tail(s))

\* base64.URLEncoding.DecodeString on the input without newlines: quanta of four
\* characters, padding only at the end of the last one, trailing bits ignored
RECURSIVE DecodeQuanta(_)
DecodeQuanta(s) ==
    IF Len(s) = 0 THEN [data |-> <<>>, err |-> Nil]
    ELSE IF Len(s) < 4 THEN [data |-> <<>>, err |-> NewError("illegal base64 data")]
    ELSE LET a == DecodeMap(s[1])
             b == DecodeMap(s[2])
             c == DecodeMap(s[3])
             d == DecodeMap(s[4])
             last == Len(s) = 4
         IN  IF a < 0 \/ b < 0
             THEN [data |-> <<>>, err |-> NewError("illegal base64 data")]
             ELSE IF last /\ s[3] = PadChar /\ s[4] = PadChar
             THEN [data |-> <<a * 4 + (b \div 16)>>, err |-> Nil]
             ELSE IF c < 0
             THEN [data |-> <<>>, err |-> NewError("illegal base64 data")]
             ELSE IF last /\ s[4] = PadChar
             THEN [data |-> <<a * 4 + (b \div 16), (b % 16) * 16 + (c \div 4)>>,
                   err |-> Nil]
             ELSE IF d < 0
             THEN [data |-> <<>>, err |-> NewError("illegal base64 data")]
             ELSE LET rest == DecodeQuanta(SubSeq(s, 5, Len(s)))
                  IN  IF rest.err # Nil THEN rest
                      ELSE [data |-> <<a * 4 + (b \div 16), (b % 16) * 16 + (c \div 4),
                                       (c % 4) * 64 + d>> \o rest.data,
                            err |-> Nil]

DecodeString(s) == DecodeQuanta(StripNewlines(s))

b64Decode(s) ==
    LET padding == (4 - (Len(s) % 4)) % 4
        padded  == s \o Repeat(PadChar, padding)
    IN  DecodeString(padded)

----------------------------------------------------------------------------
(* Hashing.  SHA-256 and HMAC-SHA-256 are taken to be collision-free: a   *)
(* digest stands for the input it was computed from, so two digests are   *)
(* equal exactly when their inputs are.                                    *)

\* sha256 of data
Sha256Sum(data) == data

\* hmac.New(sha256.New, key) over msg; the key's length keeps (key, msg) apart
HmacSha256(key, msg) == <<Len(key)>> \o key \o msg

----------------------------------------------------------------------------
(* Time *)

NanosPerSecond == 1000000000

\* time.Unix(sec, 0)
TimeUnix(sec) == [sec |-> sec, nsec |-> 0]

\* t.Sub(u) as a Duration, in floor representation
TimeSub(t, u) ==
    IF t.nsec >= u.nsec
    THEN [s |-> t.sec - u.sec, ns |-> t.nsec - u.nsec]
    ELSE [s |-> t.sec - u.sec - 1, ns |-> t.nsec - u.nsec + NanosPerSecond]

\* d > e on Durations
DurationGt(d, e) == d.s > e.s \/ (d.s = e.s /\ d.ns > e.ns)

\* time.Duration(seconds) * time.Second
Seconds(k) == [s |-> k, ns |-> 0]

\* a *time.Duration: nil, or a pointer to d
NilAge == [nil |-> TRUE, d |-> Seconds(0)]

AgeOf(d) == [nil |-> FALSE, d |-> d]

----------------------------------------------------------------------------
(* DjangoSigner *)

StrSigner == <<115, 105, 103, 110, 101, 114>>

StrSha256 == <<115, 104, 97, 50, 53, 54>>

StrColon == <<58>>

\* "django.core.signing"
SaltCoreSigning ==
    <<100, 106, 97, 110, 103, 111, 46, 99, 111, 114, 101, 46, 115, 105, 103, 110, 105,
      110, 103>>

\* "django.contrib.sessions.SessionStore"
SaltSessionStore ==
    <<100, 106, 97, 110, 103, 111, 46, 99, 111, 110, 116, 114, 105, 98, 46, 115, 101,
      115, 115, 105, 111, 110, 115, 46, 83, 101, 115, 115, 105, 111, 110, 83, 116, 111,
      114, 101>>

NewDjangoSigner(secretKey) ==
    [SecretKey |-> secretKey, Salt |-> SaltCoreSigning, Sep |-> StrColon,
     Algorithm |-> StrSha256]

\* the signer the session functions and NewClient build
SessionSigner(secretKey, salt) ==
    [SecretKey |-> secretKey, Salt |-> salt, Sep |-> StrColon, Algorithm |-> StrSha256]

\* strings.Contains(s, sep)
ContainsStr(s, sep) ==
    \E i \in 1..(Len(s) - Len(sep) + 1) : SubSeq(s, i, i + Len(sep) - 1) = sep

\* strings.Index in the place of strings.LastIndex: the first occurrence
LastIndexStr_First(s, sep) ==
    IF ContainsStr(s, sep)
    THEN (CHOOSE i \in 1..(Len(s) - Len(sep) + 1) :
              /\ SubSeq(s, i, i + Len(sep) - 1) = sep
              /\ \A j \in 1..(i - 1) : SubSeq(s, j, j + Len(sep) - 1) # sep) - 1
    ELSE -1

\* strings.LastIndex(s, sep), 0-based as in Go; -1 when sep is not in s
LastIndexStr(s, sep) ==
    IF ContainsStr(s, sep)
    THEN (CHOOSE i \in 1..(Len(s) - Len(sep) + 1) :
              /\ SubSeq(s, i, i + Len(sep) - 1) = sep
              /\ \A j \in (i + 1)..(Len(s) - Len(sep) + 1) :
                     SubSeq(s, j, j + Len(sep) - 1) # sep) - 1
    ELSE -1

\* saltedHMAC with the key derived from the secret alone
saltedHMAC_NoSalt(ds, salt, value) == HmacSha256(Sha256Sum(ds.SecretKey), value)

saltedHMAC(ds, salt, value) ==
    LET derivedKey == Sha256Sum(salt \o ds.SecretKey)
    IN  HmacSha256(derivedKey, value)

signature(ds, value) == b64Encode(saltedHMAC(ds, ds.Salt \o StrSigner, value))

\* a comparison that looks at the lengths only
constantTimeCompare_LengthOnly(a, b) == Len(a) = Len(b)

\* hmac.Equal
constantTimeCompare(a, b) == a = b

Unsign(ds, signedValue) ==
    IF ~ContainsStr(signedValue, ds.Sep)
    THEN [value |-> <<>>, err |-> NewError("no separator found in value")]
    ELSE LET lastSepIndex == LastIndexStr(signedValue, ds.Sep)
             value        == SliceTo(signedValue, lastSepIndex)
             sig          == SliceFrom(signedValue, lastSepIndex + 1)
             expectedSig  == signature(ds, value)
         IN  IF ~constantTimeCompare(sig, expectedSig)
             THEN [value |-> <<>>, err |-> NewError("signature does not match")]
             ELSE [value |-> value, err |-> Nil]

\* AgeAt keeping only the fraction of a second of the age
AgeAt_Fraction(tnow, timestamp) == [s |-> 0, ns |-> tnow.nsec]

\* time.Since(time.Unix(timestamp, 0)) at the clock value tnow
AgeAt(tnow, timestamp) == TimeSub(tnow, TimeUnix(Int64ToInt(timestamp)))

\* UnsignTimestamp parsing the timestamp before it verifies the signature
UnsignTimestamp_ParseFirst(ds, signedValue, maxAge, tnow) ==
    LET body == SliceTo(signedValue, LastIndexStr(signedValue, ds.Sep))
        ts   == b62Decode(SliceFrom(body, LastIndexStr(body, ds.Sep) + 1))
        r    == Unsign(ds, signedValue)
    IN  IF ~ContainsStr(signedValue, ds.Sep)
        THEN [value |-> <<>>, err |-> NewError("no separator found in value")]
        ELSE IF ~ContainsStr(body, ds.Sep)
        THEN [value |-> <<>>, err |-> NewError("no timestamp separator found")]
        ELSE IF ts.err # Nil
        THEN [value |-> <<>>, err |-> Wrap("invalid timestamp", ts.err)]
        ELSE IF ~maxAge.nil /\ DurationGt(AgeAt(tnow, ts.n), maxAge.d)
        THEN [value |-> <<>>, err |-> NewError("signature age %v > %v")]
        ELSE IF r.err # Nil THEN [value |-> <<>>, err |-> r.err]
        ELSE [value |-> SliceTo(body, LastIndexStr(body, ds.Sep)), err |-> Nil]

UnsignTimestamp(ds, signedValue, maxAge, tnow) ==
    LET r == Unsign(ds, signedValue)
    IN  IF r.err # Nil THEN [value |-> <<>>, err |-> r.err]
        ELSE IF ~ContainsStr(r.value, ds.Sep)
        THEN [value |-> <<>>, err |-> NewError("no timestamp separator found")]
        ELSE LET lastSepIndex == LastIndexStr(r.value, ds.Sep)
                 value        == SliceTo(r.value, lastSepIndex)
                 timestampStr == SliceFrom(r.value, lastSepIndex + 1)
                 ts           == b62Decode(timestampStr)
             IN  IF ts.err # Nil
                 THEN [value |-> <<>>, err |-> Wrap("invalid timestamp", ts.err)]
                 ELSE IF ~maxAge.nil /\ DurationGt(AgeAt(tnow, ts.n), maxAge.d)
                 THEN [value |-> <<>>, err |-> NewError("signature age %v > %v")]
                 ELSE [value |-> value, err |-> Nil]

SignTimestamp(ds, value, tnow) ==
    LET timestamp          == I64(tnow.sec)
        timestampB62       == b62Encode(timestamp)
        valueWithTimestamp == value \o ds.Sep \o timestampB62
        sig                == signature(ds, valueWithTimestamp)
    IN  valueWithTimestamp \o ds.Sep \o sig

----------------------------------------------------------------------------
(* Go values held in a map[string]interface{} *)

VString(s) == [t |-> "string", s |-> s]

\* a Go int
VInt(i) == [t |-> "int", i |-> i]

\* a float64 with the decimal value n / 10^d, n not a multiple of 10 when d > 0
VFloat(n, d) == [t |-> "float64", n |-> n, d |-> d]

VBool(b) == [t |-> "bool", b |-> b]

VNil == [t |-> "nil"]

\* []interface{}
VArray(items) == [t |-> "array", items |-> items]

\* a nested map[string]interface{}
VMap(m) == [t |-> "map", m |-> m]

\* a value encoding/json cannot encode (a func or a chan)
VFunc == [t |-> "func"]

\* a map[string]interface{}: the nil map, or a map with the entries m
NilMap == [nil |-> TRUE, m |-> <<>>]

MapOf(m) == [nil |-> FALSE, m |-> m]

----------------------------------------------------------------------------
(* UTF-8 *)

RuneError == 65533

IsCont(s, i) == i <= Len(s) /\ s[i] >= 128 /\ s[i] <= 191

InRange(s, i, lo, hi) == i <= Len(s) /\ s[i] >= lo /\ s[i] <= hi

\* utf8.DecodeRune(s[i:]): the rune and its size; (RuneError, 1) on invalid input
DecodeRune(s, i) ==
    LET b0 == s[i]
    IN  IF b0 < 128 THEN [r |-> b0, size |-> 1]
        ELSE IF b0 >= 194 /\ b0 <= 223 /\ IsCont(s, i + 1)
        THEN [r |-> (b0 - 192) * 64 + (s[i + 1] - 128), size |-> 2]
        ELSE IF b0 >= 224 /\ b0 <= 239 /\ IsCont(s, i + 2)
                /\ InRange(s, i + 1, IF b0 = 224 THEN 160 ELSE 128,
                                     IF b0 = 237 THEN 159 ELSE 191)
        THEN [r |-> (b0 - 224) * 4096 + (s[i + 1] - 128) * 64 + (s[i + 2] - 128),
              size |-> 3]
        ELSE IF b0 >= 240 /\ b0 <= 244 /\ IsCont(s, i + 2) /\ IsCont(s, i + 3)
                /\ InRange(s, i + 1, IF b0 = 240 THEN 144 ELSE 128,
                                     IF b0 = 244 THEN 143 ELSE 191)
        THEN [r |-> (b0 - 240) * 262144 + (s[i + 1] - 128) * 4096
                    + (s[i + 2] - 128) * 64 + (s[i + 3] - 128),
              size |-> 4]
        ELSE [r |-> RuneError, size |-> 1]

\* utf8.EncodeRune
EncodeRune(r) ==
    IF r < 128 THEN <<r>>
    ELSE IF r < 2048 THEN <<192 + (r \div 64), 128 + (r % 64)>>
    ELSE IF r < 65536
    THEN <<224 + (r \div 4096), 128 + ((r \div 64) % 64), 128 + (r % 64)>>
    ELSE <<240 + (r \div 262144), 128 + ((r \div 4096) % 64), 128 + ((r \div 64) % 64),
           128 + (r % 64)>>

----------------------------------------------------------------------------
(* encoding/json: Marshal *)

\* "0123456789abcdef"
HexDigit(v) == IF v < 10 THEN 48 + v ELSE 87 + v

\* \uXXXX
EscapeU(r) ==
    <<92, 117, HexDigit(r \div 4096), HexDigit((r \div 256) % 16),
      HexDigit((r \div 16) % 16), HexDigit(r % 16)>>

\* the bytes below 0x80 that are copied as they are (htmlSafeSet)
HtmlSafe(b) == b >= 32 /\ b \notin {34, 92, 60, 62, 38}

RECURSIVE AppendStringFrom(_, _)
AppendStringFrom(s, i) ==
    IF i > Len(s) THEN <<>>
    ELSE LET b == s[i]
         IN  IF b < 128
             THEN (IF HtmlSafe(b) THEN <<b>>
                   ELSE IF b \in {34, 92} THEN <<92, b>>
                   ELSE IF b = 8 THEN <<92, 98>>
                   ELSE IF b = 12 THEN <<92, 102>>
                   ELSE IF b = 10 THEN <<92, 110>>
                   ELSE IF b = 13 THEN <<92, 114>>
                   ELSE IF b = 9 THEN <<92, 116>>
                   ELSE EscapeU(b)) \o AppendStringFrom(s, i + 1)
             ELSE LET dr == DecodeRune(s, i)
                  IN  IF dr.r = RuneError /\ dr.size = 1
                      THEN EscapeU(RuneError) \o AppendStringFrom(s, i + 1)
                      ELSE IF dr.r \in {8232, 8233}
                      THEN EscapeU(dr.r) \o AppendStringFrom(s, i + dr.size)
                      ELSE SubSeq(s, i, i + dr.size - 1)
                               \o AppendStringFrom(s, i + dr.size)

\* a quoted JSON string
AppendString(s) == <<34>> \o AppendStringFrom(s, 1) \o <<34>>

\* the decimal digits of a natural number
RECURSIVE Digits(_)
Digits(k) == IF k < 10 THEN <<48 + k>> ELSE Digits(k \div 10) \o <<48 + (k % 10)>>

\* strconv.Itoa
Itoa(i) == IF i < 0 THEN <<45>> \o Digits(-i) ELSE Digits(i)

RECURSIVE Pow10(_)
Pow10(d) == IF d = 0 THEN 1 ELSE 10 * Pow10(d - 1)

\* exactly d digits of k, zero-filled on the left
RECURSIVE FixedDigits(_, _)
FixedDigits(k, d) ==
    IF d = 0 THEN <<>> ELSE FixedDigits(k \div 10, d - 1) \o <<48 + (k % 10)>>

\* strconv.AppendFloat(f, 'f', -1, 64): the shortest decimal of the value
FormatFloat(n, d) ==
    LET a == IF n < 0 THEN -n ELSE n
        whole == Digits(a \div Pow10(d))
        frac  == IF d = 0 THEN <<>> ELSE <<46>> \o FixedDigits(a % Pow10(d), d)
    IN  (IF n < 0 THEN <<45>> ELSE <<>>) \o whole \o frac

\* a < b in the byte order of strings
RECURSIVE LessStr(_, _)
LessStr(a, b) ==
    IF Len(b) = 0 THEN FALSE
    ELSE IF Len(a) = 0 THEN TRUE
    ELSE IF a[1] # b[1] THEN a[1] < b[1]
    ELSE LessStr(Tail(a), Tail(b))

\* the keys of a map in the order Marshal writes them
RECURSIVE SortedKeys(_)
SortedKeys(K) ==
    IF K = {} THEN <<>>
    ELSE LET k == CHOOSE x \in K : \A y \in K \ {x} : LessStr(x, y)
         IN  <<k>> \o SortedKeys(K \ {k})

RECURSIVE MarshalValue(_)
RECURSIVE MarshalMembers(_, _, _)
RECURSIVE MarshalElements(_, _)

\* the members keys[i..] of the map m, comma separated
MarshalMembers(m, keys, i) ==
    IF i > Len(keys) THEN [data |-> <<>>, err |-> Nil]
    ELSE LET v    == MarshalValue(m[keys[i]])
             rest == MarshalMembers(m, keys, i + 1)
         IN  IF v.err # Nil THEN v
             ELSE IF rest.err # Nil THEN rest
             ELSE [data |-> (IF i > 1 THEN <<44>> ELSE <<>>)
                               \o AppendString(keys[i]) \o <<58>> \o v.data \o rest.data,
                   err |-> Nil]

MarshalElements(items, i) ==
    IF i > Len(items) THEN [data |-> <<>>, err |-> Nil]
    ELSE LET v    == MarshalValue(items[i])
             rest == MarshalElements(items, i + 1)
         IN  IF v.err # Nil THEN v
             ELSE IF rest.err # Nil THEN rest
             ELSE [data |-> (IF i > 1 THEN <<44>> ELSE <<>>) \o v.data \o rest.data,
                   err |-> Nil]

MarshalValue(v) ==
    IF v.t = "string" THEN [data |-> AppendString(v.s), err |-> Nil]
    ELSE IF v.t = "int" THEN [data |-> Itoa(v.i), err |-> Nil]
    ELSE IF v.t = "float64" THEN [data |-> FormatFloat(v.n, v.d), err |-> Nil]
    ELSE IF v.t = "bool"
    THEN [data |-> IF v.b THEN <<116, 114, 117, 101>> ELSE <<102, 97, 108, 115, 101>>,
          err |-> Nil]
    ELSE IF v.t = "nil" THEN [data |-> <<110, 117, 108, 108>>, err |-> Nil]
    ELSE IF v.t = "array"
    THEN LET r == MarshalElements(v.items, 1)
         IN  IF r.err # Nil THEN r ELSE [data |-> <<91>> \o r.data \o <<93>>, err |-> Nil]
    ELSE IF v.t = "map"
    THEN LET r == MarshalMembers(v.m, SortedKeys(DOMAIN v.m), 1)
         IN  IF r.err # Nil THEN r ELSE [data |-> <<123>> \o r.data \o <<125>>, err |-> Nil]
    ELSE [data |-> <<>>, err |-> NewError("json: unsupported type")]

\* json.Marshal(obj) for a map[string]interface{}
JsonMarshal(obj) ==
    IF obj.nil THEN [data |-> <<110, 117, 108, 108>>, err |-> Nil]
    ELSE MarshalValue(VMap(obj.m))

----------------------------------------------------------------------------
(* encoding/json: Unmarshal into a map[string]interface{}.  A parse result *)
(* is [ok, i, v]: whether the text at the position was well formed, the    *)
(* position after it, and the Go value it decodes to.                      *)

Fail(i) == [ok |-> FALSE, i |-> i, v |-> VNil]

Done(i, v) == [ok |-> TRUE, i |-> i, v |-> v]

IsSpace(c) == c \in {32, 9, 13, 10}

IsDigit(c) == c >= 48 /\ c <= 57

RECURSIVE SkipSpace(_, _)
SkipSpace(b, i) == IF i <= Len(b) /\ IsSpace(b[i]) THEN SkipSpace(b, i + 1) ELSE i

\* the literal lit at position i
ParseLiteral(b, i, lit, v) ==
    IF i + Len(lit) - 1 <= Len(b) /\ SubSeq(b, i, i + Len(lit) - 1) = lit
    THEN Done(i + Len(lit), v)
    ELSE Fail(i)

\* the position after the digits that start at i
RECURSIVE SkipDigits(_, _)
SkipDigits(b, i) == IF i <= Len(b) /\ IsDigit(b[i]) THEN SkipDigits(b, i + 1) ELSE i

\* the natural number the digits b[i..j-1] spell
RECURSIVE DigitsValue(_, _, _, _)
DigitsValue(b, i, j, acc) ==
    IF i >= j THEN acc ELSE DigitsValue(b, i + 1, j, acc * 10 + (b[i] - 48))

\* n / 10^d with the trailing zeros of the fraction dropped
RECURSIVE NormFloat(_, _)
NormFloat(n, d) ==
    IF d > 0 /\ n % 10 = 0 THEN NormFloat(n \div 10, d - 1) ELSE VFloat(n, d)

\* a JSON number at i, decoded to the float64 of that decimal value
ParseNumber(b, i) ==
    LET neg  == i <= Len(b) /\ b[i] = 45
        i0   == IF neg THEN i + 1 ELSE i
        i1   == SkipDigits(b, i0)
        okInt == i1 > i0 /\ (b[i0] # 48 \/ i1 = i0 + 1)
        hasFrac == i1 <= Len(b) /\ b[i1] = 46
        f1   == IF hasFrac THEN SkipDigits(b, i1 + 1) ELSE i1
        okFrac == ~hasFrac \/ f1 > i1 + 1
        hasExp == f1 <= Len(b) /\ b[f1] \in {101, 69}
        eSign == hasExp /\ f1 + 1 <= Len(b) /\ b[f1 + 1] \in {43, 45}
        e0   == IF hasExp THEN (IF eSign THEN f1 + 2 ELSE f1 + 1) ELSE f1
        e1   == IF hasExp THEN SkipDigits(b, e0) ELSE f1
        okExp == ~hasExp \/ e1 > e0
        whole == DigitsValue(b, i0, i1, 0)
        d    == IF hasFrac THEN f1 - (i1 + 1) ELSE 0
        mant == IF hasFrac THEN DigitsValue(b, i1 + 1, f1, whole) ELSE whole
        ex   == IF hasExp
                THEN (IF eSign /\ b[f1 + 1] = 45 THEN -1 ELSE 1) * DigitsValue(b, e0, e1, 0)
                ELSE 0
        n    == IF neg THEN -mant ELSE mant
    IN  IF ~(okInt /\ okFrac /\ okExp) THEN Fail(i)
        ELSE IF ex >= d THEN Done(e1, VFloat(n * Pow10(ex - d), 0))
        ELSE Done(e1, NormFloat(n, d - ex))

\* the value of a hexadecimal digit, -1 for any other character
HexValue(c) ==
    IF IsDigit(c) THEN c - 48
    ELSE IF c >= 97 /\ c <= 102 THEN c - 87
    ELSE IF c >= 65 /\ c <= 70 THEN c - 55
    ELSE -1

\* getu4: the rune of the \uXXXX at position i, -1 if there is none
GetU4(b, i) ==
    IF i + 5 > Len(b) \/ b[i] # 92 \/ b[i + 1] # 117 THEN -1
    ELSE LET h1 == HexValue(b[i + 2])
             h2 == HexValue(b[i + 3])
             h3 == HexValue(b[i + 4])
             h4 == HexValue(b[i + 5])
         IN  IF h1 < 0 \/ h2 < 0 \/ h3 < 0 \/ h4 < 0 THEN -1
             ELSE h1 * 4096 + h2 * 256 + h3 * 16 + h4

IsSurrogate(r) == r >= 55296 /\ r < 57344

\* utf16.DecodeRune
DecodeSurrogates(r1, r2) ==
    IF r1 >= 55296 /\ r1 < 56320 /\ r2 >= 56320 /\ r2 < 57344
    THEN (r1 - 55296) * 1024 + (r2 - 56320) + 65536
    ELSE RuneError

\* the character an escape letter stands for, -1 if it is no escape
Unescape(c) ==
    IF c \in {34, 92, 47} THEN c
    ELSE IF c = 98 THEN 8
    ELSE IF c = 102 THEN 12
    ELSE IF c = 110 THEN 10
    ELSE IF c = 114 THEN 13
    ELSE IF c = 116 THEN 9
    ELSE -1

\* the rest of a JSON string from i, the opening quote read; acc is what was decoded
RECURSIVE ParseStringFrom(_, _, _)
ParseStringFrom(b, i, acc) ==
    IF i > Len(b) THEN Fail(i)
    ELSE IF b[i] = 34 THEN Done(i + 1, VString(acc))
    ELSE IF b[i] < 32 THEN Fail(i)
    ELSE IF b[i] = 92
    THEN IF i + 1 > Len(b) THEN Fail(i)
         ELSE IF b[i + 1] = 117
         THEN LET rr == GetU4(b, i)
              IN  IF rr < 0 THEN Fail(i)
                  ELSE IF IsSurrogate(rr)
                  THEN LET dec == DecodeSurrogates(rr, GetU4(b, i + 6))
                       IN  IF dec # RuneError
                           THEN ParseStringFrom(b, i + 12, acc \o EncodeRune(dec))
                           ELSE ParseStringFrom(b, i + 6, acc \o EncodeRune(RuneError))
                  ELSE ParseStringFrom(b, i + 6, acc \o EncodeRune(rr))
         ELSE IF Unescape(b[i + 1]) < 0 THEN Fail(i)
         ELSE ParseStringFrom(b, i + 2, acc \o <<Unescape(b[i + 1])>>)
    ELSE IF b[i] < 128 THEN ParseStringFrom(b, i + 1, acc \o <<b[i]>>)
    ELSE LET dr == DecodeRune(b, i)
         IN  ParseStringFrom(b, i + dr.size, acc \o EncodeRune(dr.r))

RECURSIVE ParseValue(_, _)
RECURSIVE ParseElements(_, _, _)
RECURSIVE ParseMembers(_, _, _)

\* the elements of an array from i, up to and including the closing bracket
ParseElements(b, i, acc) ==
    LET v == ParseValue(b, i)
        j == SkipSpace(b, v.i)
    IN  IF ~v.ok \/ j > Len(b) THEN Fail(i)
        ELSE IF b[j] = 44 THEN ParseElements(b, j + 1, Append(acc, v.v))
        ELSE IF b[j] = 93 THEN Done(j + 1, VArray(Append(acc, v.v)))
        ELSE Fail(j)

\* the members of an object from i, up to and including the closing brace;
\* a key that comes again replaces the earlier member
ParseMembers(b, i, acc) ==
    LET k0 == SkipSpace(b, i)
        k  == IF k0 <= Len(b) /\ b[k0] = 34 THEN ParseStringFrom(b, k0 + 1, <<>>)
              ELSE Fail(k0)
        c  == SkipSpace(b, k.i)
    IN  IF ~k.ok \/ c > Len(b) \/ b[c] # 58 THEN Fail(i)
        ELSE LET v  == ParseValue(b, c + 1)
                 j  == SkipSpace(b, v.i)
                 m  == (k.v.s :> v.v) @@ acc
             IN  IF ~v.ok \/ j > Len(b) THEN Fail(i)
                 ELSE IF b[j] = 44 THEN ParseMembers(b, j + 1, m)
                 ELSE IF b[j] = 125 THEN Done(j + 1, VMap(m))
                 ELSE Fail(j)

\* a JSON value from i, leading white space skipped
ParseValue(b, i) ==
    LET j == SkipSpace(b, i)
    IN  IF j > Len(b) THEN Fail(j)
        ELSE IF b[j] = 34 THEN ParseStringFrom(b, j + 1, <<>>)
        ELSE IF b[j] = 123
        THEN LET k == SkipSpace(b, j + 1)
             IN  IF k <= Len(b) /\ b[k] = 125 THEN Done(k + 1, VMap(<<>>))
                 ELSE ParseMembers(b, j + 1, <<>>)
        ELSE IF b[j] = 91
        THEN LET k == SkipSpace(b, j + 1)
             IN  IF k <= Len(b) /\ b[k] = 93 THEN Done(k + 1, VArray(<<>>))
                 ELSE ParseElements(b, j + 1, <<>>)
        ELSE IF b[j] = 116 THEN ParseLiteral(b, j, <<116, 114, 117, 101>>, VBool(TRUE))
        ELSE IF b[j] = 102 THEN ParseLiteral(b, j, <<102, 97, 108, 115, 101>>, VBool(FALSE))
        ELSE IF b[j] = 110 THEN ParseLiteral(b, j, <<110, 117, 108, 108>>, VNil)
        ELSE IF b[j] = 45 \/ IsDigit(b[j]) THEN ParseNumber(b, j)
        ELSE Fail(j)

\* json.Unmarshal(data, &result) with result a nil map[string]interface{}
\* the map the parsed value r of data is stored into
JsonUnmarshalValue(data, r) ==
    IF ~r.ok \/ SkipSpace(data, r.i) <= Len(data)
    THEN [obj |-> NilMap, err |-> NewError("json: syntax error")]
    ELSE IF r.v.t = "nil" THEN [obj |-> NilMap, err |-> Nil]
    ELSE IF r.v.t = "map" THEN [obj |-> MapOf(r.v.m), err |-> Nil]
    ELSE [obj |-> NilMap,
          err |-> NewError("json: cannot unmarshal into Go value of type map[string]interface {}")]

JsonUnmarshal(data) == JsonUnmarshalValue(data, ParseValue(data, 1))

----------------------------------------------------------------------------
(* compress/zlib.  A stream is the two header bytes, the deflate data and  *)
(* the Adler-32 of the uncompressed bytes.  The deflate layer is modelled  *)
(* by its stored (uncompressed) blocks: the writer emits the data as one   *)
(* final stored block, the reader accepts stored blocks only.              *)

AdlerMod == 65521

RECURSIVE AdlerLoop(_, _, _, _)
AdlerLoop(data, i, a, b) ==
    IF i > Len(data) THEN [a |-> a, b |-> b]
    ELSE AdlerLoop(data, i + 1, (a + data[i]) % AdlerMod,
                   (b + ((a + data[i]) % AdlerMod)) % AdlerMod)

\* the four bytes of adler32.Checksum(data), most significant first
Adler32(data) ==
    LET s == AdlerLoop(data, 1, 1, 0)
    IN  <<s.b \div 256, s.b % 256, s.a \div 256, s.a % 256>>

\* one final stored block holding data
DeflateStored(data) ==
    <<1, Len(data) % 256, Len(data) \div 256,
      255 - (Len(data) % 256), 255 - (Len(data) \div 256)>> \o data

\* zlib.NewWriter(&buf); Write(data); Close()
ZlibCompress(data) == <<120, 156>> \o DeflateStored(data) \o Adler32(data)

\* the stored blocks from position i: the data, the position after the final
\* block, and whether the blocks were well formed
RECURSIVE InflateStored(_, _, _)
InflateStored(z, i, acc) ==
    IF i + 4 > Len(z) \/ z[i] \notin {0, 1} THEN [ok |-> FALSE, i |-> i, data |-> acc]
    ELSE LET len  == z[i + 1] + z[i + 2] * 256
             nlen == z[i + 3] + z[i + 4] * 256
         IN  IF len + nlen # 65535 \/ i + 4 + len > Len(z)
             THEN [ok |-> FALSE, i |-> i, data |-> acc]
             ELSE IF z[i] = 1
             THEN [ok |-> TRUE, i |-> i + 5 + len,
                   data |-> acc \o SubSeq(z, i + 5, i + 4 + len)]
             ELSE InflateStored(z, i + 5 + len, acc \o SubSeq(z, i + 5, i + 4 + len))

\* zlib.NewReader(bytes.NewReader(z)) and io.ReadAll(reader): newErr is the
\* error of NewReader, readErr the error of ReadAll
ZlibDecompress(z) ==
    IF Len(z) < 2
    THEN [data |-> <<>>, newErr |-> NewError("unexpected EOF"), readErr |-> Nil]
    ELSE IF z[1] % 16 # 8 \/ z[1] \div 16 > 7 \/ (z[1] * 256 + z[2]) % 31 # 0
    THEN [data |-> <<>>, newErr |-> NewError("zlib: invalid header"), readErr |-> Nil]
    ELSE IF (z[2] \div 32) % 2 = 1
    THEN [data |-> <<>>, newErr |-> NewError("zlib: invalid dictionary"), readErr |-> Nil]
    ELSE LET r == InflateStored(z, 3, <<>>)
         IN  IF ~r.ok
             THEN [data |-> <<>>, newErr |-> Nil,
                   readErr |-> NewError("flate: corrupt input")]
             ELSE IF r.i + 3 > Len(z)
             THEN [data |-> <<>>, newErr |-> Nil, readErr |-> NewError("unexpected EOF")]
             ELSE IF SubSeq(z, r.i, r.i + 3) # Adler32(r.data)
             THEN [data |-> <<>>, newErr |-> Nil,
                   readErr |-> NewError("zlib: invalid checksum")]
             ELSE [data |-> r.data, newErr |-> Nil, readErr |-> Nil]

----------------------------------------------------------------------------
(* Signed objects *)

StrDot == <<46>>

SignObject(ds, obj, compress, tnow) ==
    LET j == JsonMarshal(obj)
    IN  IF j.err # Nil THEN [token |-> <<>>, err |-> Wrap("json encode error", j.err)]
        ELSE LET dataToEncode == IF compress THEN ZlibCompress(j.data) ELSE j.data
                 prefix       == IF compress THEN StrDot ELSE <<>>
                 base64Data   == prefix \o b64Encode(dataToEncode)
             IN  [token |-> SignTimestamp(ds, base64Data, tnow), err |-> Nil]

\* json.Unmarshal of the payload bytes and the result returned
UnsignObjectJson(r) ==
    IF r.err # Nil THEN [obj |-> NilMap, err |-> Wrap("json decode error", r.err)]
    ELSE [obj |-> r.obj, err |-> Nil]

\* the payload after the optional zlib step: z is the reader's outcome
UnsignObjectInflated(z) ==
    IF z.newErr # Nil THEN [obj |-> NilMap, err |-> Wrap("zlib decompress error", z.newErr)]
    ELSE IF z.readErr # Nil THEN [obj |-> NilMap, err |-> Wrap("zlib read error", z.readErr)]
    ELSE UnsignObjectJson(JsonUnmarshal(z.data))

\* the payload after base64 decoding: d is the outcome of b64Decode
UnsignObjectDecoded(decompress, d) ==
    IF d.err # Nil THEN [obj |-> NilMap, err |-> Wrap("base64 decode error", d.err)]
    ELSE UnsignObjectInflated(IF decompress THEN ZlibDecompress(d.data)
                              ELSE [data |-> d.data, newErr |-> Nil, readErr |-> Nil])

\* UnsignObjectPayload with the leading '.' left in the data to decode
UnsignObjectPayload_KeepDot(decompress, base64Data) ==
    UnsignObjectDecoded(decompress, b64Decode(base64Data))

\* a leading '.' marks compressed data and is cut off before decoding
UnsignObjectPayload(decompress, base64Data) ==
    UnsignObjectDecoded(decompress,
                        b64Decode(IF decompress THEN SliceFrom(base64Data, 1)
                                  ELSE base64Data))

\* UnsignObjectValue taking the payload of every token for plain base64
UnsignObjectValue_NeverInflate(u) ==
    IF u.err # Nil THEN [obj |-> NilMap, err |-> u.err]
    ELSE UnsignObjectPayload(FALSE, u.value)

UnsignObjectValue(u) ==
    IF u.err # Nil THEN [obj |-> NilMap, err |-> u.err]
    ELSE UnsignObjectPayload(Len(u.value) > 0 /\ u.value[1] = 46, u.value)

UnsignObject(ds, signedObj, maxAge, tnow) ==
    UnsignObjectValue(UnsignTimestamp(ds, signedObj, maxAge, tnow))

----------------------------------------------------------------------------
(* The clock, and the state the specifications share *)

\* the clock starts at StartSec seconds after the epoch and is read at
\* multiples of half a second, up to MaxTicks of them
StartSec == 1762207200

MaxTicks == 4

TickNanos == NanosPerSecond \div 2

StartTime == [sec |-> StartSec, nsec |-> 0]

\* the clock half a second after t
TimeAfterTick(t) ==
    IF t.nsec + TickNanos >= NanosPerSecond
    THEN [sec |-> t.sec + 1, nsec |-> t.nsec + TickNanos - NanosPerSecond]
    ELSE [sec |-> t.sec, nsec |-> t.nsec + TickNanos]

\* the half seconds from StartTime to t
TicksSinceStart(t) == 2 * (t.sec - StartSec) + (IF t.nsec >= TickNanos THEN 1 ELSE 0)

NoSigner == [SecretKey |-> <<>>, Salt |-> <<>>, Sep |-> <<>>, Algorithm |-> <<>>]

NoToken ==
    [kind |-> "none", s |-> <<>>, ds |-> NoSigner, at |-> StartTime, value |-> <<>>,
     obj |-> NilMap, compress |-> FALSE]

\* a *RawSession: nil, or a pointer to the record
NilRawSession ==
    [nil |-> TRUE, SessionKey |-> <<>>, SessionData |-> <<>>, ExpireDate |-> TimeUnix(0)]

RawSessionOf(row) ==
    [nil |-> FALSE, SessionKey |-> row.SessionKey, SessionData |-> row.SessionData,
     ExpireDate |-> row.ExpireDate]

\* a *Client: nil until NewClient has built one
NoClient ==
    [nil |-> TRUE, db |-> FALSE, secretKey |-> <<>>, sessionCookieName |-> <<>>,
     maxAge |-> Seconds(0), signer |-> NoSigner]

\* a ClientConfig left at its zero value
NoConfig ==
    [DB |-> FALSE, SecretKey |-> <<>>, SessionCookieName |-> <<>>, MaxAge |-> Seconds(0)]

\* a MiddlewareConfig left at its zero value; OnError is TRUE for a handler
\* that is not nil, and Client is the client the calls are made on
NoMiddlewareConfig ==
    [LoginRedirectURL |-> <<>>, SessionKey |-> <<>>, OnError |-> FALSE]

\* a *gin.Context: the cookies of its request by name, the keys set on it,
\* whether the chain is aborted, whether the chain has moved past the
\* middleware, how often the handler after the middleware ran, the status
\* and the Location header written, and the errors OnError was called with
NewContext(cookies) ==
    [cookies |-> cookies, keys |-> <<>>, aborted |-> FALSE, passed |-> FALSE,
     handled |-> 0, status |-> 0, location |-> <<>>, onError |-> <<>>]

NoContext == NewContext(<<>>)

\* the result of the call last made: the arguments it was made with and what
\* it returned; calls holds the calls goroutines have in flight; panic is
\* the run-time panic the call ended with instead of returning; dbErr is the
\* failure the store met answering the call,
\* queries counts the store queries the call made, unsigned lists the
\* payloads the call handed to the signer
NoRes ==
    [op |-> "none", ds |-> NoSigner, maxAge |-> NilAge, now |-> StartTime,
     tamper |-> "none", input |-> <<>>, value |-> <<>>, obj |-> NilMap, id |-> <<>>,
     session |-> NilRawSession, dbErr |-> Nil, queries |-> 0, unsigned |-> <<>>,
     config |-> NoConfig, mw |-> NoMiddlewareConfig, ctx |-> NoContext,
     calls |-> <<>>, panic |-> Nil, err |-> Nil]

IdleSigner ==
    /\ now = StartTime
    /\ token = NoToken
    /\ res = NoRes

----------------------------------------------------------------------------
(* The base-62 codec on its own *)

MaxSmall == 70

NoDecode == [n |-> Zero64, err |-> NewError("not decoded")]

\* int64 values handed to the codec: small ones of both signs, the values
\* around the powers of 62 and of 2^16, and the ends of the range
Int64Inputs ==
    {I64(k) : k \in -MaxSmall..MaxSmall} \cup
    {I64(k) : k \in {3843, 3844, 3845, -3844, 65535, 65536, 238328, -238328}} \cup
    {MinInt64, Inc64(MinInt64), MaxInt64, Neg64(I64(1)), <<0, 0, 1, 0>>, <<0, 0, 0, 1>>}

IdleB62 ==
    /\ b62pc = "idle"
    /\ b62n = Zero64
    /\ b62enc = <<>>
    /\ b62dec = NoDecode

\* no client built, an empty table
IdleClient ==
    /\ client = NoClient
    /\ db = {}

InitB62 ==
    /\ IdleSigner
    /\ IdleClient
    /\ b62pc = "idle"
    /\ b62n = Zero64
    /\ b62enc = <<>>
    /\ b62dec = NoDecode

B62EncodeCall ==
    \E n \in Int64Inputs :
        /\ b62pc \in {"idle", "decoded"}
        /\ b62pc' = "encoded"
        /\ b62n' = n
        /\ b62enc' = b62Encode(n)
        /\ b62dec' = NoDecode
        /\ UNCHANGED <<varsSigner, varsClient>>

B62DecodeCall ==
    /\ b62pc = "encoded"
    /\ b62pc' = "decoded"
    /\ b62dec' = b62Decode(b62enc)
    /\ UNCHANGED <<b62n, b62enc>>
    /\ UNCHANGED <<varsSigner, varsClient>>

NextB62 == B62EncodeCall \/ B62DecodeCall

SpecB62 == InitB62 /\ [][NextB62]_vars

\* C5: b62Decode(b62Encode(n)) returns n with no error for every int64 n,
\* including 0, negative values, MinInt64 and MaxInt64.
C5_B62RoundTrip ==
    b62pc = "decoded" => (b62dec.err = Nil /\ b62dec.n = b62n)

----------------------------------------------------------------------------
(* The timestamp signer: tokens are signed, carried (possibly with one     *)
(* character replaced on the way) and verified while the clock advances.   *)

\* "k1", "k2"
Secrets == {<<107, 49>>, <<107, 50>>}

Signers == {NewDjangoSigner(k) : k \in Secrets}

\* "", "a", ":", "a:b", ":a:", "a::"
Values == {<<>>, <<97>>, <<58>>, <<97, 58, 98>>, <<58, 97, 58>>, <<97, 58, 58>>}

\* 1ns, 1s, 1.5s
MaxAges == {[s |-> 0, ns |-> 1], Seconds(1), [s |-> 1, ns |-> TickNanos]}

AgeArgs == {NilAge} \cup {AgeOf(d) : d \in MaxAges}

\* the characters a token's character is replaced by: ':', 'A', '0'
TamperChars == {58, 65, 48}

Init ==
    /\ IdleSigner
    /\ IdleB62
    /\ IdleClient

\* no call is in progress
Idle == res.op = "none"

Tick ==
    /\ Idle
    /\ TicksSinceStart(now) < MaxTicks
    /\ now' = TimeAfterTick(now)
    /\ UNCHANGED <<token, res>>
    /\ UNCHANGED <<varsB62, varsClient>>

SignTimestampCall ==
    \E ds \in Signers, v \in Values :
        /\ Idle
        /\ token' = [kind |-> "timestamp", s |-> SignTimestamp(ds, v, now), ds |-> ds,
                     at |-> now, value |-> v, obj |-> NilMap, compress |-> FALSE]
        /\ res' = NoRes
        /\ UNCHANGED now
        /\ UNCHANGED <<varsB62, varsClient>>

\* where position i of the token lies: before the last separator, on it, after it
Region(s, sep, i) ==
    LET p == LastIndexStr(s, sep) + 1
    IN  IF i < p THEN "pre" ELSE IF i = p THEN "sep" ELSE "sig"

UnsignCall ==
    \E ds \in Signers :
        /\ Idle
        /\ token.kind = "timestamp"
        /\ LET r == Unsign(ds, token.s)
           IN  res' = [NoRes EXCEPT !.op = "Unsign", !.ds = ds, !.now = now,
                                    !.input = token.s, !.value = r.value, !.err = r.err]
        /\ UNCHANGED <<now, token>>
        /\ UNCHANGED <<varsB62, varsClient>>

\* Unsign on the token with its character at position i replaced by c
UnsignTamperedCall ==
    \E i \in 1..Len(token.s), c \in TamperChars :
        /\ Idle
        /\ token.kind = "timestamp"
        /\ c # token.s[i]
        /\ LET t == [token.s EXCEPT ![i] = c]
               r == Unsign(token.ds, t)
           IN  res' = [NoRes EXCEPT !.op = "Unsign", !.ds = token.ds, !.now = now,
                                    !.tamper = Region(token.s, token.ds.Sep, i),
                                    !.input = t, !.value = r.value, !.err = r.err]
        /\ UNCHANGED <<now, token>>
        /\ UNCHANGED <<varsB62, varsClient>>

UnsignTimestampCall ==
    \E ds \in Signers, maxAge \in AgeArgs :
        /\ Idle
        /\ token.kind = "timestamp"
        /\ LET r == UnsignTimestamp(ds, token.s, maxAge, now)
           IN  res' = [NoRes EXCEPT !.op = "UnsignTimestamp", !.ds = ds, !.now = now,
                                    !.maxAge = maxAge, !.input = token.s,
                                    !.value = r.value, !.err = r.err]
        /\ UNCHANGED <<now, token>>
        /\ UNCHANGED <<varsB62, varsClient>>

\* the caller takes the result of the call
Return ==
    /\ ~Idle
    /\ res' = NoRes
    /\ UNCHANGED <<now, token>>
    /\ UNCHANGED <<varsB62, varsClient>>

Next ==
    \/ Tick
    \/ SignTimestampCall
    \/ UnsignCall
    \/ UnsignTamperedCall
    \/ UnsignTimestampCall
    \/ Return

Spec == Init /\ [][Next]_vars

\* C2: replacing any single character of a token's signature segment makes
\* Unsign fail, and with an error that is ErrInvalidSignature.
C2_SigTamperIsErrInvalidSignature ==
    (res.op = "Unsign" /\ res.tamper = "sig")
        => (res.err # Nil /\ ErrorsIs(res.err, ErrInvalidSignature))

\* What the code does for C2: Unsign fails on every such token, with an error.
C2_SigTamperFails ==
    (res.op = "Unsign" /\ res.tamper = "sig") => (res.err # Nil /\ res.value = <<>>)

\* C3: replacing any single character before the last separator makes Unsign
\* fail; no modified pre-signature string is returned as a verified value.
C3_PreTamperFails ==
    (res.op = "Unsign" /\ res.tamper = "pre") => (res.err # Nil /\ res.value = <<>>)

C3_Witness ==
    /\ res.op = "Unsign"
    /\ res.tamper = "pre"
    /\ res.input # token.s
    /\ res.err = NewError("signature does not match")

\* now - T as a Duration, T the full-precision time the token was signed at
SinceSigned == TimeSub(res.now, [sec |-> token.at.sec, nsec |-> token.at.nsec])

\* C4: a token signed at T and verified with max age D at time now succeeds
\* whenever now - T < D and fails with ErrSessionExpired whenever now - T > D.
C4_AgeEnforcement ==
    (res.op = "UnsignTimestamp" /\ res.ds = token.ds /\ ~res.maxAge.nil)
        => /\ DurationGt(res.maxAge.d, SinceSigned) => res.err = Nil
           /\ DurationGt(SinceSigned, res.maxAge.d)
                  => (res.err # Nil /\ ErrorsIs(res.err, ErrSessionExpired))

\* C6: UnsignTimestamp(SignTimestamp(v), nil) returns exactly v, also when v
\* contains the separator, at its start or end as well.
C6_SeparatorInValueRoundTrip ==
    (res.op = "UnsignTimestamp" /\ res.ds = token.ds /\ res.maxAge.nil)
        => (res.err = Nil /\ res.value = token.value)

C6_Witness ==
    /\ res.op = "UnsignTimestamp"
    /\ res.ds = token.ds
    /\ res.maxAge.nil
    /\ token.value = <<58, 97, 58>>
    /\ res.value = <<58, 97, 58>>
    /\ res.now # token.at

----------------------------------------------------------------------------
(* Signed objects: session objects are signed with SignObject and decoded  *)
(* with UnsignObject while the clock advances.                             *)

\* "_auth_user_id"
StrAuthUserID == <<95, 97, 117, 116, 104, 95, 117, 115, 101, 114, 95, 105, 100>>

\* "a"
StrA == <<97>>

\* "42"
Str42 == <<52, 50>>

SessionSigners == {SessionSigner(k, SaltSessionStore) : k \in Secrets}

\* values of every kind a map[string]interface{} can hold: strings (plain,
\* with characters JSON escapes, with a two-byte rune, with a byte that is no
\* UTF-8), a Go int, float64s, a bool, nil, slices, a nested map, a func
ObjValues ==
    {VString(Str42), VString(<<34, 60, 92, 10>>), VString(<<195, 169>>), VString(<<255>>),
     VInt(7), VFloat(7, 0), VFloat(-15, 1), VBool(TRUE), VNil,
     VArray(<<>>), VArray(<<VFloat(1, 0), VString(<<120>>)>>), VArray(<<VInt(1)>>),
     VMap(StrA :> VNil), VFunc}

Objects ==
    {NilMap, MapOf(<<>>)} \cup
    {MapOf(StrA :> v) : v \in ObjValues} \cup
    {MapOf((StrAuthUserID :> VString(Str42)) @@ (StrA :> v)) :
        v \in {VString(<<58>>), VFloat(0, 0)}} \cup
    {MapOf(<<34, 58>> :> VNil), MapOf(<<255>> :> VBool(FALSE))}

InitObject ==
    /\ IdleSigner
    /\ IdleB62
    /\ IdleClient

TickObject ==
    /\ Idle
    /\ TicksSinceStart(now) < MaxTicks
    /\ now' = TimeAfterTick(now)
    /\ UNCHANGED <<token, res>>
    /\ UNCHANGED <<varsB62, varsClient>>

\* SignObject: on success the token is kept, on failure only the error.  A
\* behaviour follows one token from its signing on
SignObjectCall ==
    \E ds \in SessionSigners, obj \in Objects, compress \in BOOLEAN :
        /\ Idle
        /\ token = NoToken
        /\ LET r == SignObject(ds, obj, compress, now)
           IN  IF r.err = Nil
               THEN /\ token' = [kind |-> "object", s |-> r.token, ds |-> ds, at |-> now,
                                 value |-> <<>>, obj |-> obj, compress |-> compress]
                    /\ res' = NoRes
               ELSE /\ token' = NoToken
                    /\ res' = [NoRes EXCEPT !.op = "SignObject", !.ds = ds, !.now = now,
                                            !.err = r.err]
        /\ UNCHANGED now
        /\ UNCHANGED <<varsB62, varsClient>>

UnsignObjectCall ==
    \E ds \in SessionSigners, maxAge \in AgeArgs :
        /\ Idle
        /\ token.kind = "object"
        /\ LET r == UnsignObject(ds, token.s, maxAge, now)
           IN  res' = [NoRes EXCEPT !.op = "UnsignObject", !.ds = ds, !.now = now,
                                    !.maxAge = maxAge, !.input = token.s,
                                    !.obj = r.obj, !.err = r.err]
        /\ UNCHANGED <<now, token>>
        /\ UNCHANGED <<varsB62, varsClient>>

ReturnObject ==
    /\ ~Idle
    /\ res' = NoRes
    /\ UNCHANGED <<now, token>>
    /\ UNCHANGED <<varsB62, varsClient>>

NextObject ==
    \/ TickObject
    \/ SignObjectCall
    \/ UnsignObjectCall
    \/ ReturnObject

SpecObject == InitObject /\ [][NextObject]_vars

\* the round trip under the signing signer with no max age
RoundTripped == res.op = "UnsignObject" /\ res.ds = token.ds /\ res.maxAge.nil

\* C1 (as claimed): for every JSON-serializable object O and both values of
\* compress, UnsignObject(SignObject(O, compress), nil) succeeds and returns
\* an object equal to O.
C1_RoundTripEveryObject == RoundTripped => (res.err = Nil /\ res.obj = token.obj)

\* utf8.ValidString
RECURSIVE ValidUTF8From(_, _)
ValidUTF8From(s, i) ==
    IF i > Len(s) THEN TRUE
    ELSE LET dr == DecodeRune(s, i)
         IN  IF dr.r = RuneError /\ dr.size = 1 THEN FALSE
             ELSE ValidUTF8From(s, i + dr.size)

ValidUTF8(s) == ValidUTF8From(s, 1)

\* a value of the kinds json.Unmarshal itself produces: nil, a bool, a
\* float64, a string of valid UTF-8, a slice or a map of such values
RECURSIVE IsDecodedValue(_)
IsDecodedValue(v) ==
    IF v.t = "string" THEN ValidUTF8(v.s)
    ELSE IF v.t \in {"float64", "bool", "nil"} THEN TRUE
    ELSE IF v.t = "array" THEN \A i \in 1..Len(v.items) : IsDecodedValue(v.items[i])
    ELSE IF v.t = "map"
    THEN \A k \in DOMAIN v.m : ValidUTF8(k) /\ IsDecodedValue(v.m[k])
    ELSE FALSE

IsDecodedObject(obj) == obj.nil \/ IsDecodedValue(VMap(obj.m))

\* C1 (amended): the round trip returns an equal object when the object's
\* values are of the kinds json.Unmarshal produces and its strings are UTF-8.
C1_RoundTripDecodedObjects ==
    (RoundTripped /\ IsDecodedObject(token.obj)) => (res.err = Nil /\ res.obj = token.obj)

C1_Witness ==
    /\ RoundTripped
    /\ token.compress
    /\ token.obj = MapOf(StrA :> VArray(<<VFloat(1, 0), VString(<<120>>)>>))
    /\ res.obj = token.obj
    /\ res.now # token.at

----------------------------------------------------------------------------
(* Session data: the functions that encode and decode a session object    *)

\* EncodeSessionDataWithSalt: the result of SignObject, [token, err]
EncodeSessionDataWithSalt(userID, secretKey, salt, additionalData, compress, tnow) ==
    SignObject(SessionSigner(secretKey, salt),
               MapOf(additionalData.m @@ (StrAuthUserID :> VString(userID))),
               compress, tnow)

EncodeSessionData(userID, secretKey, additionalData, tnow) ==
    EncodeSessionDataWithSalt(userID, secretKey, SaltSessionStore, additionalData, TRUE, tnow)

\* fmt.Sprintf("%.0f", v): the nearest integer, a half going to the even one
SprintfF0(n, d) ==
    LET a == IF n < 0 THEN -n ELSE n
        q == a \div Pow10(d)
        r == a % Pow10(d)
        k == IF 2 * r > Pow10(d) \/ (2 * r = Pow10(d) /\ q % 2 = 1) THEN q + 1 ELSE q
    IN  (IF n < 0 THEN <<45>> ELSE <<>>) \o Digits(k)

\* UserIDString that still renders a value of an unsupported type
UserIDString_BestEffort(v) ==
    IF v.t = "string" THEN [id |-> v.s, err |-> Nil]
    ELSE IF v.t = "float64" THEN [id |-> SprintfF0(v.n, v.d), err |-> Nil]
    ELSE IF v.t = "int" THEN [id |-> Itoa(v.i), err |-> Nil]
    ELSE [id |-> <<63>>, err |-> NewError("unexpected user ID type")]

\* the type switch on the user ID
UserIDString(v) ==
    IF v.t = "string" THEN [id |-> v.s, err |-> Nil]
    ELSE IF v.t = "float64" THEN [id |-> SprintfF0(v.n, v.d), err |-> Nil]
    ELSE IF v.t = "int" THEN [id |-> Itoa(v.i), err |-> Nil]
    ELSE [id |-> <<>>, err |-> NewError("unexpected user ID type")]

\* sessionMap["_auth_user_id"] and its conversion to a string
ExtractUserID(sessionMap) ==
    IF StrAuthUserID \notin DOMAIN sessionMap.m
    THEN [id |-> <<>>, err |-> NewError("_auth_user_id not found in session")]
    ELSE UserIDString(sessionMap.m[StrAuthUserID])

----------------------------------------------------------------------------
(* Client *)

\* "sessionid"
StrSessionID == <<115, 101, 115, 115, 105, 111, 110, 105, 100>>

\* pgx.ErrNoRows
ErrNoRows == "no rows in result set"

\* NewClient looking at the secret key before the connection
NewClient_SecretFirst(config) ==
    IF config.SecretKey = <<>>
    THEN [client |-> NoClient, err |-> NewError("secret key is required")]
    ELSE IF ~config.DB
    THEN [client |-> NoClient, err |-> NewError("database connection is required")]
    ELSE [client |->
              [nil |-> FALSE, db |-> config.DB, secretKey |-> config.SecretKey,
               sessionCookieName |->
                   IF config.SessionCookieName = <<>> THEN StrSessionID
                   ELSE config.SessionCookieName,
               maxAge |-> config.MaxAge,
               signer |-> SessionSigner(config.SecretKey, SaltSessionStore)],
          err |-> Nil]

\* NewClient: [client, err]; config.DB is TRUE for a non-nil DBTX
NewClient(config) ==
    IF ~config.DB
    THEN [client |-> NoClient, err |-> NewError("database connection is required")]
    ELSE IF config.SecretKey = <<>>
    THEN [client |-> NoClient, err |-> NewError("secret key is required")]
    ELSE [client |->
              [nil |-> FALSE, db |-> config.DB, secretKey |-> config.SecretKey,
               sessionCookieName |->
                   IF config.SessionCookieName = <<>> THEN StrSessionID
                   ELSE config.SessionCookieName,
               maxAge |-> config.MaxAge,
               signer |-> SessionSigner(config.SecretKey, SaltSessionStore)],
          err |-> Nil]

\* c.db.QueryRow(ctx, query, sessionKey).Scan(...) on the table: the row with
\* that session_key, pgx.ErrNoRows when there is none, dbErr when the store
\* fails
QueryRow(table, sessionKey, dbErr) ==
    IF dbErr # Nil THEN [row |-> NilRawSession, err |-> dbErr]
    ELSE IF \E row \in table : row.SessionKey = sessionKey
    THEN [row |-> RawSessionOf(CHOOSE row \in table : row.SessionKey = sessionKey),
          err |-> Nil]
    ELSE [row |-> NilRawSession, err |-> NewError(ErrNoRows)]

\* TimeAfter compared on the whole seconds only
TimeAfter_SecondsOnly(t, u) == t.sec > u.sec

\* t.After(u)
TimeAfter(t, u) == t.sec > u.sec \/ (t.sec = u.sec /\ t.nsec > u.nsec)

\* GetRawSessionScanned returning the expired record along with the error
GetRawSessionScanned_RecordWithError(q, tnow) ==
    IF q.err # Nil
    THEN IF ErrorsIs(q.err, ErrNoRows)
         THEN [session |-> NilRawSession, err |-> NewError(ErrSessionNotFound),
               queries |-> 1, unsigned |-> <<>>]
         ELSE [session |-> NilRawSession, err |-> Wrap("database query failed", q.err),
               queries |-> 1, unsigned |-> <<>>]
    ELSE IF TimeAfter(tnow, q.row.ExpireDate)
    THEN [session |-> q.row, err |-> NewError(ErrSessionExpired),
          queries |-> 1, unsigned |-> <<>>]
    ELSE [session |-> q.row, err |-> Nil, queries |-> 1, unsigned |-> <<>>]

\* GetRawSessionScanned reporting a store failure without wrapping its cause
GetRawSessionScanned_Unwrapped(q, tnow) ==
    IF q.err # Nil
    THEN IF ErrorsIs(q.err, ErrNoRows)
         THEN [session |-> NilRawSession, err |-> NewError(ErrSessionNotFound),
               queries |-> 1, unsigned |-> <<>>]
         ELSE [session |-> NilRawSession, err |-> NewError("database query failed"),
               queries |-> 1, unsigned |-> <<>>]
    ELSE IF TimeAfter(tnow, q.row.ExpireDate)
    THEN [session |-> NilRawSession, err |-> NewError(ErrSessionExpired),
          queries |-> 1, unsigned |-> <<>>]
    ELSE [session |-> q.row, err |-> Nil, queries |-> 1, unsigned |-> <<>>]

\* what GetRawSession returns once the row has been scanned into session
GetRawSessionScanned(q, tnow) ==
    IF q.err # Nil
    THEN IF ErrorsIs(q.err, ErrNoRows)
         THEN [session |-> NilRawSession, err |-> NewError(ErrSessionNotFound),
               queries |-> 1, unsigned |-> <<>>]
         ELSE [session |-> NilRawSession, err |-> Wrap("database query failed", q.err),
               queries |-> 1, unsigned |-> <<>>]
    ELSE IF TimeAfter(tnow, q.row.ExpireDate)
    THEN [session |-> NilRawSession, err |-> NewError(ErrSessionExpired),
          queries |-> 1, unsigned |-> <<>>]
    ELSE [session |-> q.row, err |-> Nil, queries |-> 1, unsigned |-> <<>>]

\* the result r of GetRawSession with the payload of a record verified under
\* the client's signer before the record is returned
VerifiedRecord(c, r, tnow) ==
    IF r.err # Nil THEN r
    ELSE IF UnsignObject(c.signer, r.session.SessionData, NilAge, tnow).err # Nil
    THEN [session |-> NilRawSession, err |-> NewError(ErrInvalidSignature),
          queries |-> r.queries, unsigned |-> <<r.session.SessionData>>]
    ELSE [r EXCEPT !.unsigned = <<r.session.SessionData>>]

\* GetRawSession verifying the payload it returns
GetRawSession_Verifying(c, table, sessionKey, tnow, dbErr) ==
    IF sessionKey = <<>> \/ Len(sessionKey) > 255
    THEN [session |-> NilRawSession, err |-> NewError(ErrSessionNotFound),
          queries |-> 0, unsigned |-> <<>>]
    ELSE VerifiedRecord(c, GetRawSessionScanned(QueryRow(table, sessionKey, dbErr), tnow),
                        tnow)

\* GetRawSession with the check of the key's length left out
GetRawSession_NoLengthCheck(c, table, sessionKey, tnow, dbErr) ==
    IF sessionKey = <<>>
    THEN [session |-> NilRawSession, err |-> NewError(ErrSessionNotFound),
          queries |-> 0, unsigned |-> <<>>]
    ELSE GetRawSessionScanned(QueryRow(table, sessionKey, dbErr), tnow)

\* GetRawSession querying the store once more when the store has failed
GetRawSession_Retrying(c, table, sessionKey, tnow, dbErr) ==
    IF sessionKey = <<>> \/ Len(sessionKey) > 255
    THEN [session |-> NilRawSession, err |-> NewError(ErrSessionNotFound),
          queries |-> 0, unsigned |-> <<>>]
    ELSE IF dbErr # Nil
    THEN [GetRawSessionScanned(QueryRow(table, sessionKey, Nil), tnow)
              EXCEPT !.queries = 2]
    ELSE GetRawSessionScanned(QueryRow(table, sessionKey, dbErr), tnow)

\* c.GetRawSession(ctx, sessionKey) at time tnow, the store holding table:
\* [session, err], the number of store queries made and the payloads handed
\* to the signer
GetRawSession(c, table, sessionKey, tnow, dbErr) ==
    IF sessionKey = <<>> \/ Len(sessionKey) > 255
    THEN [session |-> NilRawSession, err |-> NewError(ErrSessionNotFound),
          queries |-> 0, unsigned |-> <<>>]
    ELSE GetRawSessionScanned(QueryRow(table, sessionKey, dbErr), tnow)

\* the user ID of the object UnsignObject returned
decodeSessionDataMap(u) ==
    IF u.err # Nil THEN [id |-> <<>>, err |-> u.err]
    ELSE ExtractUserID(u.obj)

\* decodeSessionData handing &c.maxAge to the signer whatever its value
decodeSessionData_AlwaysAged(c, sessionData, tnow) ==
    decodeSessionDataMap(UnsignObject(c.signer, sessionData, AgeOf(c.maxAge), tnow))

\* c.decodeSessionData(sessionData): [id, err]
decodeSessionData(c, sessionData, tnow) ==
    decodeSessionDataMap(
        UnsignObject(c.signer, sessionData,
                     IF DurationGt(c.maxAge, Seconds(0)) THEN AgeOf(c.maxAge) ELSE NilAge,
                     tnow))

DecodeSessionUserID(c, sessionData, tnow) == decodeSessionData(c, sessionData, tnow)

----------------------------------------------------------------------------
(* The session validator: a client is built, Django saves sessions in the  *)
(* table, and GetRawSession looks them up while the clock advances.        *)

\* "sid"
StrSid == <<115, 105, 100>>

\* the ClientConfig values NewClient is called with
ClientConfigs ==
    [DB : BOOLEAN, SecretKey : {<<>>} \cup Secrets, SessionCookieName : {<<>>, StrSid},
     MaxAge : {Seconds(0), Seconds(1)}]

\* "abc", "zzz"
StrAbc == <<97, 98, 99>>

StrZzz == <<122, 122, 122>>

\* the longest key GetRawSession looks up, and the shortest it does not
LongKey == Repeat(107, 255)

TooLongKey == Repeat(107, 256)

\* the keys Django saves sessions under, and the keys looked up
StoredKeys == {StrAbc, LongKey}

SessionKeys == {<<>>, StrAbc, StrZzz, LongKey, TooLongKey}

\* "payload": GetRawSession leaves the payload encoded
StrPayload == <<112, 97, 121, 108, 111, 97, 100>>

\* the clock k half seconds after t
RECURSIVE TimeAfterTicks(_, _)
TimeAfterTicks(t, k) == IF k = 0 THEN t ELSE TimeAfterTicks(TimeAfterTick(t), k - 1)

\* the expiry dates of the saved sessions: instants the clock is read at
ExpireDates == {TimeAfterTicks(StartTime, k) : k \in 1..(MaxTicks - 1)}

\* the failures the store meets answering a query: none, or a lost connection
DBErrors == {Nil, NewError("connection refused")}

InitClient ==
    /\ IdleSigner
    /\ IdleB62
    /\ IdleClient

NewClientCall ==
    \E config \in ClientConfigs :
        /\ Idle
        /\ client.nil
        /\ LET r == NewClient(config)
           IN  /\ client' = r.client
               /\ res' = [NoRes EXCEPT !.op = "NewClient", !.config = config,
                                        !.err = r.err]
        /\ UNCHANGED <<now, token, db>>
        /\ UNCHANGED varsB62

\* the session data Django saves for user "42" when the clock starts
SavedSessionData == EncodeSessionData(Str42, <<107, 49>>, NilMap, StartTime).token

\* the payloads saved under a key: a string that is no signed token, and
\* under "abc" the session data as well
PayloadsOf(key) == IF key = StrAbc THEN {StrPayload, SavedSessionData} ELSE {StrPayload}

\* Django saves a session: a row of the table, session_key being its key
SaveSession ==
    \E key \in StoredKeys, expire \in ExpireDates :
        \E payload \in PayloadsOf(key) :
            /\ Idle
            /\ \A row \in db : row.SessionKey # key
            /\ db' = db \cup {[SessionKey |-> key, SessionData |-> payload,
                               ExpireDate |-> expire]}
        /\ UNCHANGED <<now, token, res, client>>
        /\ UNCHANGED varsB62

\* Django deletes a session
DeleteSession ==
    \E row \in db :
        /\ Idle
        /\ db' = db \ {row}
        /\ UNCHANGED <<now, token, res, client>>
        /\ UNCHANGED varsB62

\* what res holds after DecodeSessionUserID on the record's payload returned r
DecodeRecordResult(r) ==
    [NoRes EXCEPT !.op = "DecodeSessionUserID", !.ds = client.signer, !.now = now,
                  !.input = res.session.SessionData,
                  !.unsigned = <<res.session.SessionData>>, !.id = r.id, !.err = r.err]

GetRawSessionCall ==
    \E sessionKey \in SessionKeys, dbErr \in DBErrors :
        /\ Idle
        /\ ~client.nil
        /\ LET r == GetRawSession(client, db, sessionKey, now, dbErr)
           IN  res' = [NoRes EXCEPT !.op = "GetRawSession", !.now = now,
                                    !.input = sessionKey, !.dbErr = dbErr,
                                    !.session = r.session, !.err = r.err,
                                    !.queries = r.queries, !.unsigned = r.unsigned]
        /\ UNCHANGED <<now, token, client, db>>
        /\ UNCHANGED varsB62

\* the caller decodes the record GetRawSession has just returned
DecodeRecordCall ==
    /\ res.op = "GetRawSession"
    /\ ~res.session.nil
    /\ res' = [DecodeRecordResult(DecodeSessionUserID(client, res.session.SessionData, now))
                EXCEPT !.session = res.session]
    /\ UNCHANGED <<now, token, client, db>>
    /\ UNCHANGED varsB62

NextClient ==
    \/ Tick
    \/ NewClientCall
    \/ SaveSession
    \/ DeleteSession
    \/ GetRawSessionCall
    \/ DecodeRecordCall
    \/ Return

SpecClient == InitClient /\ [][NextClient]_vars

\* C7: GetRawSession returns ErrSessionNotFound for an empty identifier and
\* for every identifier longer than 255 characters, a 256-character one
\* included, and the store is not queried.
C7_BadKeyNotFoundWithoutQuery ==
    (res.op = "GetRawSession" /\ (res.input = <<>> \/ Len(res.input) > 255))
        => /\ res.err = NewError(ErrSessionNotFound)
           /\ res.session.nil
           /\ res.queries = 0

C7_Witness ==
    /\ res.op = "GetRawSession"
    /\ Len(res.input) = 256
    /\ res.err = NewError(ErrSessionNotFound)
    /\ res.queries = 0
    /\ db # {}

\* the instant t is earlier than the instant u
Earlier(t, u) == t.sec < u.sec \/ (t.sec = u.sec /\ t.nsec < u.nsec)

\* the store answered the call with the record row, which had expired
ReturnedExpired(row) ==
    /\ res.op = "GetRawSession"
    /\ res.dbErr = Nil
    /\ res.queries = 1
    /\ row.SessionKey = res.input
    /\ Earlier(row.ExpireDate, res.now)

\* C8: when the store returns a record whose expire_date is in the past,
\* GetRawSession returns ErrSessionExpired and a nil record, and the payload
\* is neither returned nor handed to the signer.
C8_ExpiredRecordNotExposed ==
    \A row \in db :
        ReturnedExpired(row)
            => /\ res.err = NewError(ErrSessionExpired)
               /\ res.session.nil
               /\ res.unsigned = <<>>

C8_Witness ==
    \E row \in db :
        /\ ReturnedExpired(row)
        /\ row.ExpireDate.sec = res.now.sec
        /\ res.err = NewError(ErrSessionExpired)
        /\ res.session.nil

\* C9: GetRawSession returns a record only if the record's expiry is strictly
\* later than the time of the check.
C9_ReturnedOnlyIfStrictlyFuture ==
    (res.op = "GetRawSession" /\ ~res.session.nil)
        => Earlier(res.now, res.session.ExpireDate)

----------------------------------------------------------------------------
(* The session decoder: a session is encoded with EncodeSessionData and    *)
(* a client decodes the user ID from it while the clock advances.          *)

\* "7"
Str7 == <<55>>

\* "42", "", "é"
UserIDs == {Str42, <<>>, <<195, 169>>}

\* the additionalData maps: nil, one further key, a key that is a user ID of
\* its own, a value encoding/json cannot encode
AdditionalData ==
    {NilMap, MapOf(StrA :> VFloat(1, 0)), MapOf(StrAuthUserID :> VString(Str7)),
     MapOf(StrA :> VFunc)}

InitSession ==
    /\ IdleSigner
    /\ IdleB62
    /\ IdleClient

\* EncodeSessionData: on success the token is kept with the user ID (value)
\* and the additionalData (obj) it was made from
EncodeSessionDataCall ==
    \E userID \in UserIDs, secretKey \in Secrets, additionalData \in AdditionalData :
        /\ Idle
        /\ token = NoToken
        /\ LET r == EncodeSessionData(userID, secretKey, additionalData, now)
           IN  IF r.err = Nil
               THEN /\ token' = [kind |-> "session", s |-> r.token,
                                 ds |-> SessionSigner(secretKey, SaltSessionStore),
                                 at |-> now, value |-> userID, obj |-> additionalData,
                                 compress |-> TRUE]
                    /\ res' = NoRes
               ELSE /\ token' = NoToken
                    /\ res' = [NoRes EXCEPT !.op = "EncodeSessionData", !.now = now,
                                            !.err = r.err]
        /\ UNCHANGED <<now, client, db>>
        /\ UNCHANGED varsB62

\* what res holds after a decoder, called with the max age maxAge under the
\* signer ds, has returned r
DecodeResult(op, ds, maxAge, r) ==
    [NoRes EXCEPT !.op = op, !.ds = ds, !.maxAge = maxAge, !.now = now,
                  !.input = token.s, !.id = r.id, !.err = r.err]

DecodeSessionUserIDCall ==
    /\ Idle
    /\ ~client.nil
    /\ token.kind \in {"session", "data"}
    /\ res' = DecodeResult("DecodeSessionUserID", client.signer,
                            IF DurationGt(client.maxAge, Seconds(0))
                            THEN AgeOf(client.maxAge) ELSE NilAge,
                            DecodeSessionUserID(client, token.s, now))
    /\ UNCHANGED <<now, token, client, db>>
    /\ UNCHANGED varsB62

NextSession ==
    \/ Tick
    \/ NewClientCall
    \/ EncodeSessionDataCall
    \/ DecodeSessionUserIDCall
    \/ Return

SpecSession == InitSession /\ [][NextSession]_vars

\* C10: a client built with k decodes the token from
\* EncodeSessionData(u, k, additionalData) to exactly u, for every u, k and
\* additionalData, nil included.
C10_EncodedSessionDecodesToUserID ==
    (res.op = "DecodeSessionUserID" /\ client.secretKey = token.ds.SecretKey)
        => (res.err = Nil /\ res.id = token.value)

----------------------------------------------------------------------------
(* The package-level decoders of signer.go *)

\* the user ID of the object UnsignObject returned, its error wrapped
DecodeSessionDataMap(u) ==
    IF u.err # Nil THEN [id |-> <<>>, err |-> Wrap("failed to unsign session", u.err)]
    ELSE ExtractUserID(u.obj)

\* DecodeSessionDataWithSalt(sessionData, secretKey, salt, maxAgeSeconds): [id, err]
DecodeSessionDataWithSalt(sessionData, secretKey, salt, maxAgeSeconds, tnow) ==
    DecodeSessionDataMap(
        UnsignObject(SessionSigner(secretKey, salt), sessionData,
                     IF maxAgeSeconds > 0 THEN AgeOf(Seconds(maxAgeSeconds)) ELSE NilAge,
                     tnow))

DecodeSessionDataWithMaxAge(sessionData, secretKey, maxAgeSeconds, tnow) ==
    DecodeSessionDataWithSalt(sessionData, secretKey, SaltSessionStore, maxAgeSeconds, tnow)

DecodeSessionData(sessionData, secretKey, tnow) ==
    DecodeSessionDataWithMaxAge(sessionData, secretKey, 0, tnow)

----------------------------------------------------------------------------
(* The session decoder on received data: session data of every kind, well *)
(* formed or not, reaches DecodeSessionUserID and DecodeSessionData*.      *)

\* "12345", "12345.0"
Str12345 == <<49, 50, 51, 52, 53>>

Str12345Dot0 == <<49, 50, 51, 52, 53, 46, 48>>

\* the values the identity field holds: strings, integer-valued numbers,
\* numbers with a fraction, and values that are no identity
IdentityValues ==
    {VString(Str42), VString(Str12345Dot0), VString(<<>>),
     VFloat(12345, 0), VFloat(0, 0), VFloat(-7, 0), VFloat(1000000, 0),
     VFloat(15, 1), VFloat(25, 1), VBool(TRUE), VNil, VArray(<<>>)}

\* the session objects signed: with each identity, and without one
ReceivedObjects ==
    {MapOf(StrAuthUserID :> v) : v \in IdentityValues} \cup
    {MapOf(<<>>), MapOf(StrA :> VString(Str42)), NilMap}

\* payloads that are signed as they are: no base64, a compression marker on
\* data that is no zlib stream, a zlib header with nothing after it, base64
\* of bytes that are no JSON, base64 of a JSON array
ReceivedPayloads ==
    {<<33>>, <<46, 65, 65, 65, 65>>, <<46>> \o b64Encode(<<120, 156>>),
     b64Encode(<<110, 111>>), b64Encode(<<91, 93>>)}

\* s with its last character replaced by another one
TamperLast(s) == [s EXCEPT ![Len(s)] = IF @ = 65 THEN 66 ELSE 65]

\* the signer of most of the received data, and a signer with another secret
DataSigner == SessionSigner(<<107, 49>>, SaltSessionStore)

OtherSigner == SessionSigner(<<107, 50>>, SaltSessionStore)

\* a session object with the identity "42"
Identity42 == MapOf(StrAuthUserID :> VString(Str42))

\* an instant long before the clock starts
LongAgo == TimeUnix(1)

\* what is received: nothing, a string without separator, the payloads and
\* objects signed under DataSigner when the clock starts, an object signed
\* long ago, one with its signature altered, one signed under another salt
\* and one signed under another secret
ReceivedData ==
    {[s |-> <<>>, ds |-> NoSigner, at |-> StartTime, obj |-> NilMap],
     [s |-> StrAbc, ds |-> NoSigner, at |-> StartTime, obj |-> NilMap]} \cup
    {[s |-> SignTimestamp(DataSigner, p, StartTime), ds |-> DataSigner, at |-> StartTime,
      obj |-> NilMap] : p \in ReceivedPayloads} \cup
    {[s |-> SignObject(DataSigner, obj, TRUE, StartTime).token, ds |-> DataSigner,
      at |-> StartTime, obj |-> obj] : obj \in ReceivedObjects} \cup
    {[s |-> SignObject(DataSigner, Identity42, FALSE, LongAgo).token, ds |-> DataSigner,
      at |-> LongAgo, obj |-> Identity42],
     [s |-> TamperLast(SignObject(DataSigner, Identity42, FALSE, StartTime).token),
      ds |-> NoSigner, at |-> StartTime, obj |-> NilMap],
     [s |-> SignObject(NewDjangoSigner(<<107, 49>>), Identity42, TRUE, StartTime).token,
      ds |-> NewDjangoSigner(<<107, 49>>), at |-> StartTime, obj |-> Identity42],
     [s |-> SignObject(OtherSigner, Identity42, TRUE, StartTime).token,
      ds |-> OtherSigner, at |-> StartTime, obj |-> Identity42]}

\* the maxAgeSeconds arguments
MaxAgeSeconds == {0, 1}

InitDecode ==
    /\ IdleSigner
    /\ IdleB62
    /\ IdleClient

\* session data arrives: token keeps it with the signer it was signed under
\* (NoSigner when none signed it as it is), the time of signing and the
\* object it encodes
ReceiveSessionData ==
    \E d \in ReceivedData :
        /\ Idle
        /\ token = NoToken
        /\ token' = [NoToken EXCEPT !.kind = "data", !.s = d.s, !.ds = d.ds,
                                    !.at = d.at, !.obj = d.obj]
        /\ UNCHANGED <<now, res, client, db>>
        /\ UNCHANGED varsB62

DecodeSessionDataCall ==
    \E secretKey \in Secrets, maxAgeSeconds \in MaxAgeSeconds :
        /\ Idle
        /\ token.kind = "data"
        /\ res' = DecodeResult("DecodeSessionData",
                                SessionSigner(secretKey, SaltSessionStore),
                                IF maxAgeSeconds > 0 THEN AgeOf(Seconds(maxAgeSeconds))
                                ELSE NilAge,
                                DecodeSessionDataWithMaxAge(token.s, secretKey,
                                                            maxAgeSeconds, now))
        /\ UNCHANGED <<now, token, client, db>>
        /\ UNCHANGED varsB62

NextDecode ==
    \/ Tick
    \/ NewClientCall
    \/ ReceiveSessionData
    \/ DecodeSessionUserIDCall
    \/ DecodeSessionDataCall
    \/ Return

SpecDecode == InitDecode /\ [][NextDecode]_vars

\* s ends in the signature ds gives to what precedes its last separator
CarriesValidSignature(s, ds) ==
    \E i \in 1..Len(s) :
        /\ s[i] = 58
        /\ \A j \in (i + 1)..Len(s) : s[j] # 58
        /\ SubSeq(s, i + 1, Len(s)) = signature(ds, SubSeq(s, 1, i - 1))

\* a decoder has returned
Decoded == res.op \in {"DecodeSessionUserID", "DecodeSessionData"}

\* C11: whenever DecodeSessionUserID or DecodeSessionData* returns an error
\* the identity returned is the empty string, and an input without a valid
\* signature under the decoder's key never yields a nil error.
C11_FailsClosed ==
    Decoded =>
        /\ res.err # Nil => res.id = <<>>
        /\ ~CarriesValidSignature(res.input, res.ds) => res.err # Nil

C11_Witness ==
    /\ res.op = "DecodeSessionUserID"
    /\ CarriesValidSignature(res.input, res.ds)
    /\ res.err = <<"unexpected user ID type">>
    /\ res.id = <<>>

----------------------------------------------------------------------------
(* Key material: tokens signed under one (secret, salt) pair are verified  *)
(* under another.                                                          *)

\* "k", "signerk", "bk"
KeySecrets == {<<107>>, StrSigner \o <<107>>, <<98, 107>>}

\* "a", "asigner", "ab"
KeySalts == {<<97>>, <<97>> \o StrSigner, <<97, 98>>}

KeySigners == {SessionSigner(k, salt) : k \in KeySecrets, salt \in KeySalts}

InitKeys ==
    /\ IdleSigner
    /\ IdleB62
    /\ IdleClient

KeySignCall ==
    \E ds \in KeySigners, v \in {<<>>, StrA} :
        /\ Idle
        /\ token' = [kind |-> "timestamp", s |-> SignTimestamp(ds, v, now), ds |-> ds,
                     at |-> now, value |-> v, obj |-> NilMap, compress |-> FALSE]
        /\ res' = NoRes
        /\ UNCHANGED now
        /\ UNCHANGED <<varsB62, varsClient>>

KeyUnsignCall ==
    \E ds \in KeySigners :
        /\ Idle
        /\ token.kind = "timestamp"
        /\ res' = [NoRes EXCEPT !.op = "Unsign", !.ds = ds, !.now = now,
                                !.input = token.s, !.value = Unsign(ds, token.s).value,
                                !.err = Unsign(ds, token.s).err]
        /\ UNCHANGED <<now, token>>
        /\ UNCHANGED <<varsB62, varsClient>>

NextKeys ==
    \/ KeySignCall
    \/ KeyUnsignCall
    \/ Return

SpecKeys == InitKeys /\ [][NextKeys]_vars

\* the token passed Unsign under the signer res.ds
Passed == res.op = "Unsign" /\ res.err = Nil

\* C12: a token signed under (secret, salt) passes Unsign under
\* (secret', salt') only if secret' = secret and salt' = salt.
C12_OnlySameSecretAndSalt ==
    Passed => (res.ds.SecretKey = token.ds.SecretKey /\ res.ds.Salt = token.ds.Salt)

\* the string the signing key is the digest of
KeyInput(ds) == ds.Salt \o StrSigner \o ds.SecretKey

\* C12 as amended: a token passes Unsign under (secret', salt') only if
\* salt' + "signer" + secret' is the string salt + "signer" + secret it was
\* signed with; with the same salt only the same secret passes, with the
\* same secret only the same salt.
C12_OnlySameKeyInput ==
    Passed =>
        /\ KeyInput(res.ds) = KeyInput(token.ds)
        /\ res.ds.Salt = token.ds.Salt => res.ds.SecretKey = token.ds.SecretKey
        /\ res.ds.SecretKey = token.ds.SecretKey => res.ds.Salt = token.ds.Salt

C12_Witness ==
    /\ Passed
    /\ res.ds # token.ds
    /\ res.value # <<>>

----------------------------------------------------------------------------
(* The outcomes of a validation attempt (specification SpecClient) *)

\* the terminal outcomes of one GetRawSession call
IsNotFound == res.err = NewError(ErrSessionNotFound) /\ res.session.nil

IsExpired == res.err = NewError(ErrSessionExpired) /\ res.session.nil

IsValidUndecoded == res.err = Nil /\ ~res.session.nil

\* the store failed: the failure is wrapped and is neither of the sentinels
IsStoreFailed ==
    /\ res.err # Nil
    /\ res.err[1] = "database query failed"
    /\ res.session.nil

\* nothing of the call was handed to the signer and no identity came out
Undecoded == res.unsigned = <<>> /\ res.id = <<>>

\* exactly one of the outcomes a, b, c holds
ExactlyOne(a, b, c) == (a \/ b \/ c) /\ ~(a /\ b) /\ ~(a /\ c) /\ ~(b /\ c)

\* C13: one GetRawSession call ends in exactly one of NotFound, Expired and
\* Valid with the payload undecoded; decoding happens only on a later
\* explicit decode request.
C13_ThreeOutcomes ==
    res.op = "GetRawSession"
        => (ExactlyOne(IsNotFound, IsExpired, IsValidUndecoded) /\ Undecoded)

\* C13 as amended: one GetRawSession call ends in exactly one of NotFound,
\* Expired, Valid with the payload undecoded and, when the store fails other
\* than by finding no row, StoreFailed; an identity or a decode failure is
\* the result of a DecodeSessionUserID call on a record returned before.
C13_FourOutcomes ==
    /\ res.op = "GetRawSession"
           => /\ ExactlyOne(IsNotFound, IsExpired, IsValidUndecoded) \/ IsStoreFailed
              /\ ~(IsStoreFailed /\ (IsNotFound \/ IsExpired \/ IsValidUndecoded))
              /\ Undecoded
    /\ res.op = "DecodeSessionUserID"
           => (~res.session.nil /\ res.unsigned = <<res.session.SessionData>>)

C13_Witness ==
    /\ res.op = "DecodeSessionUserID"
    /\ ~res.session.nil
    /\ res.err = Nil
    /\ res.id = Str42

\* the store answered the call with the record row, which had not expired
ReturnedUnexpired(row) ==
    /\ res.op = "GetRawSession"
    /\ res.dbErr = Nil
    /\ res.queries = 1
    /\ row.SessionKey = res.input
    /\ ~Earlier(row.ExpireDate, res.now)

\* C14: GetRawSession verifies and decodes nothing: for an unexpired record
\* it succeeds, also when the payload is no validly signed token, the payload
\* returned is the stored string, and the signer is not invoked.
C14_PayloadLeftEncoded ==
    \A row \in db :
        ReturnedUnexpired(row)
            => /\ res.err = Nil
               /\ ~res.session.nil
               /\ res.session.SessionData = row.SessionData
               /\ res.unsigned = <<>>

C14_Witness ==
    \E row \in db :
        /\ ReturnedUnexpired(row)
        /\ row.SessionData = StrPayload
        /\ ~CarriesValidSignature(row.SessionData, client.signer)
        /\ res.err = Nil
        /\ res.session.SessionData = StrPayload

\* the store was queried and held no row with the key
StoreMiss ==
    /\ res.op = "GetRawSession"
    /\ res.queries = 1
    /\ res.dbErr = Nil
    /\ \A row \in db : row.SessionKey # res.input

\* the store was queried and failed
StoreFailure == res.op = "GetRawSession" /\ res.queries = 1 /\ res.dbErr # Nil

\* err wraps cause: the chain of cause ends the chain of err
Wraps(err, cause) ==
    /\ Len(err) > Len(cause)
    /\ SubSeq(err, Len(err) - Len(cause) + 1, Len(err)) = cause

\* C15: a no-such-row outcome yields ErrSessionNotFound; any other store
\* failure yields an error that is neither ErrSessionNotFound nor
\* ErrSessionExpired and wraps the original cause; no record is returned in
\* either case.
C15_StoreOutcomesDistinguished ==
    /\ StoreMiss => (res.err = NewError(ErrSessionNotFound) /\ res.session.nil)
    /\ StoreFailure
           => /\ ~ErrorsIs(res.err, ErrSessionNotFound)
              /\ ~ErrorsIs(res.err, ErrSessionExpired)
              /\ Wraps(res.err, res.dbErr)
              /\ res.session.nil

C15_Witness ==
    /\ StoreFailure
    /\ \E row \in db : row.SessionKey = res.input /\ Earlier(res.now, row.ExpireDate)
    /\ res.err = <<"database query failed", "connection refused">>

-----------------------------------------------------------------------------
(* Construction of the client *)

\* the client NewClient builds from a complete configuration
BuiltFrom(config) ==
    /\ ~client.nil
    /\ client.db
    /\ client.secretKey = config.SecretKey
    /\ client.maxAge = config.MaxAge
    /\ client.sessionCookieName # <<>>
    /\ client.signer = SessionSigner(config.SecretKey, SaltSessionStore)

\* C16: NewClient returns a nil client and "database connection is required"
\* when DB is nil, whatever the secret key; a nil client and "secret key is
\* required" when DB is set and the secret key is empty; a complete client and
\* a nil error otherwise.
C16_NewClientFailsFast ==
    res.op = "NewClient"
        => /\ ~res.config.DB
                  => /\ client = NoClient
                     /\ res.err = NewError("database connection is required")
           /\ (res.config.DB /\ res.config.SecretKey = <<>>)
                  => /\ client = NoClient
                     /\ res.err = NewError("secret key is required")
           /\ (res.config.DB /\ res.config.SecretKey # <<>>)
                  => /\ BuiltFrom(res.config)
                     /\ res.err = Nil

C16_Witness ==
    /\ res.op = "NewClient"
    /\ ~res.config.DB
    /\ res.config.SecretKey = <<>>
    /\ client.nil
    /\ res.err = NewError("database connection is required")

-----------------------------------------------------------------------------
(* The maximum age of session data *)

\* the maximum age the decoder that returned was configured with
ConfiguredMaxAge ==
    IF res.op = "DecodeSessionUserID" THEN client.maxAge
    ELSE IF res.maxAge.nil THEN Seconds(0)
    ELSE res.maxAge.d

\* the time since the whole second the session data d was signed in
EmbeddedAge(d) == TimeSub(res.now, TimeUnix(d.at.sec))

\* the decoder was given d, the identity "42" signed under the decoder's key
DecodedOwn(d) ==
    /\ Decoded
    /\ d.s = res.input
    /\ d.ds = res.ds
    /\ d.obj = Identity42

AgeRejected == ErrorsIs(res.err, "signature age %v > %v") /\ res.id = <<>>

\* C17: with a maximum age of zero session data signed under the decoder's
\* key decodes whatever the age of its timestamp; with a positive maximum age
\* it decodes exactly when the age of its timestamp does not exceed the
\* maximum, and is rejected for its age otherwise.
C17_AgeOnlyWhenConfigured ==
    \A d \in ReceivedData :
        DecodedOwn(d) =>
            IF ConfiguredMaxAge = Seconds(0)
            THEN res.err = Nil /\ res.id = Str42
            ELSE IF DurationGt(EmbeddedAge(d), ConfiguredMaxAge)
            THEN AgeRejected
            ELSE res.err = Nil /\ res.id = Str42

C17_Witness ==
    \E d \in ReceivedData :
        /\ DecodedOwn(d)
        /\ res.op = "DecodeSessionUserID"
        /\ d.at = LongAgo
        /\ client.maxAge = Seconds(0)
        /\ res.err = Nil
        /\ res.id = Str42

\* a decoder with a positive maximum age has rejected old session data
C17_WitnessAged ==
    \E d \in ReceivedData :
        /\ DecodedOwn(d)
        /\ ConfiguredMaxAge = Seconds(1)
        /\ AgeRejected

-----------------------------------------------------------------------------
(* The identity field: json.Unmarshal stores a JSON number as a float64,   *)
(* and the type switch renders it with "%.0f". Integers of up to 54 bits   *)
(* are kept as two limbs.                                                  *)

MantissaLimb == 2^27

\* v * 10 + d
MulAdd10(v, d) ==
    [hi |-> v.hi * 10 + ((v.lo * 10 + d) \div MantissaLimb),
     lo |-> (v.lo * 10 + d) % MantissaLimb]

\* the integer the decimal digits s[i..] continue v to
RECURSIVE DecimalValue(_, _, _)
DecimalValue(s, i, v) ==
    IF i > Len(s) THEN v ELSE DecimalValue(s, i + 1, MulAdd10(v, s[i] - 48))

\* the float64 nearest to the integer v < 2^54, a tie going to the even
\* mantissa: below 2^53 every integer is a float64, from there on the even
\* ones are
RoundFloat64(v) ==
    IF v.hi < MantissaLimb \div 2 \/ v.lo % 2 = 0 THEN v
    ELSE IF v.lo % 4 = 1 THEN [v EXCEPT !.lo = v.lo - 1]
    ELSE IF v.lo + 1 = MantissaLimb THEN [hi |-> v.hi + 1, lo |-> 0]
    ELSE [v EXCEPT !.lo = v.lo + 1]

\* the float64 json.Unmarshal stores for the JSON integer s: [neg, m]
ParseFloat64(s) ==
    IF s[1] = 45
    THEN [neg |-> TRUE, m |-> RoundFloat64(DecimalValue(s, 2, [hi |-> 0, lo |-> 0]))]
    ELSE [neg |-> FALSE, m |-> RoundFloat64(DecimalValue(s, 1, [hi |-> 0, lo |-> 0]))]

\* the decimal digits of v
RECURSIVE LimbDigits(_)
LimbDigits(v) ==
    IF v.hi = 0 /\ v.lo < 10 THEN <<48 + v.lo>>
    ELSE LimbDigits([hi |-> v.hi \div 10,
                     lo |-> ((v.hi % 10) * MantissaLimb + v.lo) \div 10])
             \o <<48 + (((v.hi % 10) * MantissaLimb + v.lo) % 10)>>

\* fmt.Sprintf("%.0f", f) of an integer-valued float64
SprintfF0Float64(f) == (IF f.neg THEN <<45>> ELSE <<>>) \o LimbDigits(f.m)

\* the type switch on an identity that is a string or a JSON integer
UserIDStringOfJSON(v) ==
    IF v.t = "string" THEN [id |-> v.s, err |-> Nil]
    ELSE [id |-> SprintfF0Float64(ParseFloat64(v.s)), err |-> Nil]

\* the decimal digits of the integer after the one s is the digits of
RECURSIVE SuccDecimal(_)
SuccDecimal(s) ==
    IF s = <<>> THEN <<49>>
    ELSE IF s[Len(s)] = 57 THEN SuccDecimal(SubSeq(s, 1, Len(s) - 1)) \o <<48>>
    ELSE SubSeq(s, 1, Len(s) - 1) \o <<s[Len(s)] + 1>>

RECURSIVE DecimalPlus(_, _)
DecimalPlus(s, k) == IF k = 0 THEN s ELSE DecimalPlus(SuccDecimal(s), k - 1)

MaxOffset == 24

\* "0", "12340", "999990", and 2^53 - 12 = "9007199254740980"
IdentityBases ==
    {<<48>>, <<49, 50, 51, 52, 48>>, <<57, 57, 57, 57, 57, 48>>,
     <<57, 48, 48, 55, 49, 57, 57, 50, 53, 52, 55, 52, 48, 57, 56, 48>>}

\* the integers stored as identity: those from a base on, and negative ones
IntegerIdentities ==
    {DecimalPlus(b, k) : b \in IdentityBases, k \in 0..MaxOffset} \cup
    {<<45>> \o DecimalPlus(b, 12) : b \in IdentityBases}

\* the identity fields of the sessions stored
StoredIdentities ==
    {[t |-> "number", s |-> s] : s \in IntegerIdentities} \cup
    {[t |-> "string", s |-> s] :
        s \in {<<>>, Str42, Str12345Dot0,
               DecimalPlus(<<57, 48, 48, 55, 49, 57, 57, 50, 53, 52, 55, 52, 48, 57, 56, 48>>, 13)}}

InitIdentity ==
    /\ IdleSigner
    /\ IdleB62
    /\ IdleClient

\* a session arrives whose identity field is v
ReceiveIdentity ==
    \E v \in StoredIdentities :
        /\ Idle
        /\ token = NoToken
        /\ token' = [NoToken EXCEPT !.kind = v.t, !.s = v.s]
        /\ UNCHANGED <<now, res>>
        /\ UNCHANGED <<varsB62, varsClient>>

DecodeIdentityResult(r) ==
    [NoRes EXCEPT !.op = "decodeSessionData", !.now = now, !.input = token.s,
                  !.id = r.id, !.err = r.err]

\* the identity is decoded and converted to a string
DecodeIdentityCall ==
    /\ Idle
    /\ token.kind \in {"number", "string"}
    /\ res' = DecodeIdentityResult(UserIDStringOfJSON([t |-> token.kind, s |-> token.s]))
    /\ UNCHANGED <<now, token>>
    /\ UNCHANGED <<varsB62, varsClient>>

NextIdentity ==
    \/ ReceiveIdentity
    \/ DecodeIdentityCall
    \/ Return

SpecIdentity == InitIdentity /\ [][NextIdentity]_vars

\* C18: an identity stored as an integer decodes to the decimal
\* representation of that integer, without decimal point or exponent, and an
\* identity stored as a string decodes to the same string.
C18_IntegerIdentityIsItsDecimal ==
    res.op = "decodeSessionData" => (res.err = Nil /\ res.id = res.input)

\* the integer s is the digits of has at most 53 bits
FitsMantissa(s) ==
    DecimalValue(s, IF s[1] = 45 THEN 2 ELSE 1, [hi |-> 0, lo |-> 0]).hi
        < MantissaLimb \div 2

\* the identities of at most 53 bits, 12345 among them, and the strings decode
\* to what was stored
C18_ExactBelowMantissa ==
    (res.op = "decodeSessionData" /\ (token.kind = "string" \/ FitsMantissa(res.input)))
        => (res.err = Nil /\ res.id = res.input)

\* every decoded identity stored as an integer is a plain decimal: an
\* optional sign and digits
C18_PlainDecimal ==
    (res.op = "decodeSessionData" /\ token.kind = "number")
        => \A i \in 1..Len(res.id) :
               res.id[i] \in 48..57 \/ (i = 1 /\ res.id[i] = 45)

C18_Witness ==
    /\ res.op = "decodeSessionData"
    /\ token.kind = "number"
    /\ res.input = Str12345
    /\ res.id = Str12345

-----------------------------------------------------------------------------
(* The Gin middleware: a chain of AuthMiddleware and one handler serves     *)
(* requests while sessions are saved and the clock advances.               *)

StatusOK == 200

StatusFound == 302

StatusUnauthorized == 401

\* "/account/login", "django_session"
StrAccountLogin == <<47, 97, 99, 99, 111, 117, 110, 116, 47, 108, 111, 103, 105, 110>>

StrDjangoSession == <<100, 106, 97, 110, 103, 111, 95, 115, 101, 115, 115, 105, 111, 110>>

\* "/login", "user"
StrLogin == <<47, 108, 111, 103, 105, 110>>

StrUser == <<117, 115, 101, 114>>

\* c.Cookie(name): [value, err]
Cookie(ctx, name) ==
    IF name \in DOMAIN ctx.cookies
    THEN [value |-> ctx.cookies[name], err |-> Nil]
    ELSE [value |-> <<>>, err |-> NewError("http: named cookie not present")]

\* c.Set(key, value)
ContextSet(ctx, key, value) == [ctx EXCEPT !.keys = (key :> value) @@ @]

\* c.Abort()
ContextAbort(ctx) == [ctx EXCEPT !.aborted = TRUE]

\* c.Redirect(code, location)
ContextRedirect(ctx, code, location) ==
    [ctx EXCEPT !.status = code, !.location = location]

\* the handler registered after the middleware: c.Status(http.StatusOK)
Handler(ctx) ==
    [ctx EXCEPT !.handled = @ + 1, !.status = IF @ = 0 THEN StatusOK ELSE @]

\* c.Next(): the handlers of the chain that have not run yet run, unless the
\* chain is aborted. The engine does the same once the middleware returns.
ContextNext(ctx) ==
    IF ctx.aborted \/ ctx.passed THEN ctx
    ELSE Handler([ctx EXCEPT !.passed = TRUE])

\* an OnError handler: it notes the error and calls
\* c.AbortWithStatus(http.StatusUnauthorized)
OnError(ctx, err) ==
    [ctx EXCEPT !.onError = Append(@, err), !.status = StatusUnauthorized,
                !.aborted = TRUE]

SessionCookieName(c) == c.sessionCookieName

\* getSessionFromCookie once c.Cookie has returned ck
getSessionFromCookieOf(ck, c, table, tnow, dbErr) ==
    IF ck.err # Nil \/ ck.value = <<>>
    THEN [session |-> NilRawSession, err |-> NewError("no session cookie"),
          queries |-> 0, unsigned |-> <<>>]
    ELSE GetRawSession(c, table, ck.value, tnow, dbErr)

\* getSessionFromCookie(c, config), config.Client being c
getSessionFromCookie(ctx, c, table, tnow, dbErr) ==
    getSessionFromCookieOf(Cookie(ctx, SessionCookieName(c)), c, table, tnow, dbErr)

\* setConfigDefaults leaving the configuration as it is
setConfigDefaults_Unset(config) == config

setConfigDefaults(config) ==
    [config EXCEPT
        !.LoginRedirectURL = IF @ = <<>> THEN StrAccountLogin ELSE @,
        !.SessionKey = IF @ = <<>> THEN StrDjangoSession ELSE @]

\* the failure branch returning without c.Abort()
AuthMiddlewareFailed_NoAbort(config, ctx, err) ==
    IF config.OnError THEN [ctx EXCEPT !.onError = Append(@, err)]
    ELSE ContextRedirect(ctx, StatusFound, config.LoginRedirectURL)

\* the handler of AuthMiddleware when getSessionFromCookie returned err
AuthMiddlewareFailed(config, ctx, err) ==
    ContextAbort(IF config.OnError THEN OnError(ctx, err)
                 ELSE ContextRedirect(ctx, StatusFound, config.LoginRedirectURL))

\* the handler AuthMiddleware returns for config after setConfigDefaults, r
\* being what getSessionFromCookie returned
AuthMiddlewareHandler(config, ctx, r) ==
    IF r.err # Nil THEN AuthMiddlewareFailed(config, ctx, r.err)
    ELSE ContextNext(ContextSet(ctx, config.SessionKey, r.session))

\* the context after AuthMiddleware(config) has served it
AuthMiddleware(config, ctx, r) ==
    AuthMiddlewareHandler(setConfigDefaults(config), ctx, r)

\* the configurations of the middleware
MiddlewareConfigs ==
    [LoginRedirectURL : {<<>>, StrLogin}, SessionKey : {<<>>, StrUser},
     OnError : BOOLEAN]

\* the cookies of the requests: none, the session cookie empty, with the key
\* of a saved session and with another key, and the same under another name
RequestCookies ==
    {<<>>} \cup
    {(StrSessionID :> v) : v \in {<<>>, StrAbc, StrZzz}} \cup
    {(StrSid :> v) : v \in {<<>>, StrAbc}}

InitMiddleware ==
    /\ IdleSigner
    /\ IdleB62
    /\ IdleClient

\* what res holds after the chain has served a request: r is what
\* getSessionFromCookie returned and ctx the context afterwards
ServeResult(config, dbErr, r, ctx) ==
    [NoRes EXCEPT !.op = "AuthMiddleware", !.now = now, !.mw = config,
                  !.dbErr = dbErr, !.session = r.session, !.err = r.err,
                  !.queries = r.queries, !.unsigned = r.unsigned, !.ctx = ctx]

\* AuthMiddleware as ServeResult records its run
ServeAuth(config, dbErr, ctx, r) ==
    ServeResult(config, dbErr, r, ContextNext(AuthMiddleware(config, ctx, r)))

\* a request is served by the chain of AuthMiddleware(config) and Handler
ServeAuthCall ==
    \E config \in MiddlewareConfigs, cookies \in RequestCookies, dbErr \in DBErrors :
        /\ Idle
        /\ ~client.nil
        /\ res' = ServeAuth(config, dbErr, NewContext(cookies),
                            getSessionFromCookie(NewContext(cookies), client, db, now,
                                                 dbErr))
        /\ UNCHANGED <<now, token, client, db>>
        /\ UNCHANGED varsB62

\* OptionalAuthMiddleware storing what getSessionFromCookie returned whether
\* it failed or not
OptionalAuthMiddleware_SetAlways(config, ctx, r) ==
    ContextNext(ContextSet(ctx, setConfigDefaults(config).SessionKey, r.session))

\* the context after the handler OptionalAuthMiddleware(config) returns has
\* run on it, r being what getSessionFromCookie returned
OptionalAuthMiddleware(config, ctx, r) ==
    IF r.err = Nil
    THEN ContextNext(ContextSet(ctx, setConfigDefaults(config).SessionKey, r.session))
    ELSE ContextNext(ctx)

\* OptionalAuthMiddleware as ServeResult records its run
ServeOptional(config, dbErr, ctx, r) ==
    [ServeResult(config, dbErr, r, ContextNext(OptionalAuthMiddleware(config, ctx, r)))
        EXCEPT !.op = "OptionalAuthMiddleware"]

\* a request is served by the chain of OptionalAuthMiddleware(config) and
\* Handler
ServeOptionalCall ==
    \E config \in MiddlewareConfigs, cookies \in RequestCookies, dbErr \in DBErrors :
        /\ Idle
        /\ ~client.nil
        /\ res' = ServeOptional(config, dbErr, NewContext(cookies),
                                getSessionFromCookie(NewContext(cookies), client, db,
                                                     now, dbErr))
        /\ UNCHANGED <<now, token, client, db>>
        /\ UNCHANGED varsB62

NextMiddleware ==
    \/ Tick
    \/ NewClientCall
    \/ SaveSession
    \/ ServeAuthCall
    \/ ServeOptionalCall
    \/ Return

SpecMiddleware == InitMiddleware /\ [][NextMiddleware]_vars

\* the request carries the session cookie, under the name the client reads
\* it by, with a value that is not empty
SentCookie ==
    /\ client.sessionCookieName \in DOMAIN res.ctx.cookies
    /\ res.ctx.cookies[client.sessionCookieName] # <<>>

\* GetRawSession succeeds on the cookie of the request: the store answers and
\* holds a session under that key that has not expired
Authenticated ==
    /\ SentCookie
    /\ res.dbErr = Nil
    /\ \E row \in db :
           /\ row.SessionKey = res.ctx.cookies[client.sessionCookieName]
           /\ ~Earlier(row.ExpireDate, res.now)

\* C19: AuthMiddleware lets the next handler run, once, exactly when the
\* session cookie is present, not empty and GetRawSession succeeded on it;
\* otherwise the chain is aborted, the handler has not run and nothing is
\* stored in the context.
C19_HandlerRunsIffAuthenticated ==
    res.op = "AuthMiddleware"
        => /\ res.ctx.handled = (IF Authenticated THEN 1 ELSE 0)
           /\ ~Authenticated => (res.ctx.aborted /\ DOMAIN res.ctx.keys = {})

C19_Witness ==
    /\ res.op = "AuthMiddleware"
    /\ SentCookie
    /\ ~Authenticated
    /\ res.err = NewError(ErrSessionExpired)
    /\ res.ctx.aborted
    /\ res.ctx.handled = 0

\* a request with a live session has gone through to the handler
C19_WitnessPassed ==
    /\ res.op = "AuthMiddleware"
    /\ Authenticated
    /\ res.ctx.handled = 1
    /\ ~res.ctx.aborted
    /\ DOMAIN res.ctx.keys = {StrDjangoSession}

\* the location a failed request is redirected to
LoginLocation ==
    IF res.mw.LoginRedirectURL = <<>> THEN StrAccountLogin ELSE res.mw.LoginRedirectURL

Redirected == res.ctx.status = StatusFound \/ res.ctx.location # <<>>

\* C20: when authentication fails and OnError is set, OnError is called
\* once, with an error that is not nil and is "no session cookie" when the
\* cookie is absent or empty, and nothing is redirected; when OnError is nil
\* the response is a 302 to LoginRedirectURL, "/account/login" by default,
\* and no error handler runs.
C20_OnErrorOrRedirect ==
    (res.op = "AuthMiddleware" /\ ~Authenticated)
        => IF res.mw.OnError
           THEN /\ Len(res.ctx.onError) = 1
                /\ res.ctx.onError[1] # Nil
                /\ ~SentCookie => res.ctx.onError[1] = NewError("no session cookie")
                /\ ~Redirected
           ELSE /\ res.ctx.onError = <<>>
                /\ res.ctx.status = StatusFound
                /\ res.ctx.location = LoginLocation

C20_Witness ==
    /\ res.op = "AuthMiddleware"
    /\ ~res.mw.OnError
    /\ res.mw.LoginRedirectURL = <<>>
    /\ StrSessionID \in DOMAIN res.ctx.cookies
    /\ res.ctx.cookies[StrSessionID] = <<>>
    /\ client.sessionCookieName = StrSessionID
    /\ res.ctx.status = StatusFound
    /\ res.ctx.location = StrAccountLogin

\* OnError has been called for an empty cookie
C20_WitnessOnError ==
    /\ res.op = "AuthMiddleware"
    /\ res.mw.OnError
    /\ StrSessionID \in DOMAIN res.ctx.cookies
    /\ res.ctx.cookies[StrSessionID] = <<>>
    /\ client.sessionCookieName = StrSessionID
    /\ res.ctx.onError = <<NewError("no session cookie")>>

-----------------------------------------------------------------------------
(* OptionalAuthMiddleware *)

\* the key the middleware stores the session under
ContextKey == IF res.mw.SessionKey = <<>> THEN StrDjangoSession ELSE res.mw.SessionKey

\* the context holds, under the key of the middleware and no other, the
\* record of the session the cookie names
StoredRawSession ==
    /\ DOMAIN res.ctx.keys = {ContextKey}
    /\ ~res.ctx.keys[ContextKey].nil
    /\ res.ctx.keys[ContextKey].SessionKey = res.ctx.cookies[client.sessionCookieName]

\* C21: OptionalAuthMiddleware always lets the next handler run, once,
\* neither aborts nor redirects nor calls OnError, and stores the raw session
\* under SessionKey exactly when the cookie was read and GetRawSession
\* succeeded on it; otherwise it stores nothing.
C21_OptionalAlwaysContinues ==
    res.op = "OptionalAuthMiddleware"
        => /\ res.ctx.handled = 1
           /\ ~res.ctx.aborted
           /\ ~Redirected
           /\ res.ctx.onError = <<>>
           /\ IF Authenticated THEN StoredRawSession ELSE DOMAIN res.ctx.keys = {}

C21_Witness ==
    /\ res.op = "OptionalAuthMiddleware"
    /\ res.mw.OnError
    /\ SentCookie
    /\ ~Authenticated
    /\ res.err # Nil
    /\ res.ctx.handled = 1
    /\ DOMAIN res.ctx.keys = {}

\* a request with a live session has had its record stored
C21_WitnessStored ==
    /\ res.op = "OptionalAuthMiddleware"
    /\ Authenticated
    /\ res.mw.SessionKey = StrUser
    /\ StoredRawSession

-----------------------------------------------------------------------------
(* The compression marker *)

\* the object the JSON text of obj holds
JsonOf(obj) == JsonUnmarshal(JsonMarshal(obj).data).obj

\* C22: the value of a token SignObject made begins with '.' exactly when
\* compress was true, and UnsignObject recovers from either kind of token the
\* object its JSON text holds: compressed data is inflated, plain data is
\* not.
C22_MarkerIffCompressed ==
    /\ token.kind = "object" => (token.s[1] = 46 <=> token.compress)
    /\ RoundTripped => (res.err = Nil /\ res.obj = JsonOf(token.obj))

C22_Witness ==
    /\ RoundTripped
    /\ token.compress
    /\ token.s[1] = 46
    /\ res.err = Nil
    /\ res.obj = token.obj
    /\ StrAuthUserID \in DOMAIN token.obj.m

\* a token signed without compression has been decoded
C22_WitnessPlain ==
    /\ RoundTripped
    /\ ~token.compress
    /\ token.s[1] # 46
    /\ res.err = Nil
    /\ res.obj = token.obj
    /\ StrA \in DOMAIN token.obj.m

-----------------------------------------------------------------------------
(* Concurrent calls: goroutines share one client and call its methods,     *)
(* and the methods of its signer, while the clock advances and the table   *)
(* changes. A call is begun, reads what it reads, and returns.             *)

\* the goroutines
Procs == {1, 2}

\* the configuration of the shared client
SharedConfig ==
    [DB |-> TRUE, SecretKey |-> <<107, 49>>, SessionCookieName |-> <<>>,
     MaxAge |-> Seconds(1)]

SharedClient == NewClient(SharedConfig).client

\* what a call returns: a string, an object, a record, an error
Outcome(value, obj, session, err) ==
    [value |-> value, obj |-> obj, session |-> session, err |-> err]

NoOutcome == Outcome(<<>>, NilMap, NilRawSession, Nil)

\* a call of a goroutine: where it is, the method and its argument, the
\* failure of the store, the table and the row it was answered with, the
\* clock value it read, and what it returned
NoCall ==
    [pc |-> "idle", op |-> "none", arg |-> <<>>, dbErr |-> Nil, table |-> {},
     q |-> [row |-> NilRawSession, err |-> Nil], now |-> StartTime,
     result |-> NoOutcome]

\* the calls made: the signer's methods on session data and on session data
\* with its signature altered, and GetRawSession on the key of the session
ConcurrentCalls ==
    {[op |-> op, arg |-> arg] :
        op \in {"Unsign", "UnsignObject", "DecodeSessionUserID"},
        arg \in {SavedSessionData, TamperLast(SavedSessionData)}} \cup
    {[op |-> "GetRawSession", arg |-> StrAbc]}

\* the fields of *ds once a method of the signer has run with receiver ds:
\* no method assigns a field
SignerReceiver_SaltAppended(ds) == [ds EXCEPT !.Salt = @ \o StrSigner]

SignerReceiver(ds) == ds

\* the fields of *c once a method of the client has run with receiver c
ClientReceiver(c) == c

OutcomeOfUnsign(r) == Outcome(r.value, NilMap, NilRawSession, r.err)

OutcomeOfUnsignObject(r) == Outcome(<<>>, r.obj, NilRawSession, r.err)

OutcomeOfDecode(r) == Outcome(r.id, NilMap, NilRawSession, r.err)

OutcomeOfGetRawSession(r) == Outcome(<<>>, NilMap, r.session, r.err)

\* what a method of the signer returns, called on the client c at tnow
SignerCall(c, op, arg, tnow) ==
    IF op = "Unsign" THEN OutcomeOfUnsign(Unsign(c.signer, arg))
    ELSE IF op = "UnsignObject"
    THEN OutcomeOfUnsignObject(UnsignObject(c.signer, arg, NilAge, tnow))
    ELSE OutcomeOfDecode(DecodeSessionUserID(c, arg, tnow))

InitConcurrent ==
    /\ now = StartTime
    /\ token = NoToken
    /\ res = [NoRes EXCEPT !.calls = [p \in Procs |-> NoCall]]
    /\ IdleB62
    /\ IdleClient

\* the client the goroutines share is built
NewSharedClient ==
    /\ client.nil
    /\ client' = NewClient(SharedConfig).client
    /\ UNCHANGED <<now, token, res, db>>
    /\ UNCHANGED varsB62

\* Django saves the session under "abc", to expire after a second
SaveSharedSession ==
    /\ db = {}
    /\ db' = {[SessionKey |-> StrAbc, SessionData |-> SavedSessionData,
               ExpireDate |-> TimeAfterTicks(StartTime, 2)]}
    /\ UNCHANGED <<now, token, res, client>>
    /\ UNCHANGED varsB62

\* goroutine p calls a method
CallBegin(p) ==
    \E call \in ConcurrentCalls :
        /\ ~client.nil
        /\ res.calls[p].pc = "idle"
        /\ res' = [res EXCEPT !.calls[p] =
                       [NoCall EXCEPT !.pc = "called", !.op = call.op, !.arg = call.arg]]
        /\ UNCHANGED <<now, token, client, db>>
        /\ UNCHANGED varsB62

\* the call of p, as it stands once the method of the signer has run
RanCall(call, r) == [call EXCEPT !.pc = "done", !.now = now, !.result = r]

\* the method of the signer p called runs: it reads the fields of the signer
\* and the clock
CallRun(p) ==
    /\ res.calls[p].pc = "called"
    /\ res.calls[p].op # "GetRawSession"
    /\ res' = [res EXCEPT !.calls[p] =
                   RanCall(@, SignerCall(client, @.op, @.arg, now))]
    /\ client' = [client EXCEPT !.signer = SignerReceiver(@)]
    /\ UNCHANGED <<now, token, db>>
    /\ UNCHANGED varsB62

\* GetRawSession called by p queries the store
CallQuery(p) ==
    \E dbErr \in DBErrors :
        /\ res.calls[p].pc = "called"
        /\ res.calls[p].op = "GetRawSession"
        /\ res' = [res EXCEPT !.calls[p] =
                       [@ EXCEPT !.pc = "queried", !.dbErr = dbErr, !.table = db,
                                 !.q = QueryRow(db, res.calls[p].arg, dbErr)]]
        /\ client' = ClientReceiver(client)
        /\ UNCHANGED <<now, token, db>>
        /\ UNCHANGED varsB62

\* GetRawSession called by p reads the clock and compares the expiry
CallScan(p) ==
    /\ res.calls[p].pc = "queried"
    /\ res' = [res EXCEPT !.calls[p] =
                   RanCall(@, OutcomeOfGetRawSession(GetRawSessionScanned(@.q, now)))]
    /\ client' = ClientReceiver(client)
    /\ UNCHANGED <<now, token, db>>
    /\ UNCHANGED varsB62

\* the call of p returns
CallReturn(p) ==
    /\ res.calls[p].pc = "done"
    /\ res' = [res EXCEPT !.calls[p] = NoCall]
    /\ UNCHANGED <<now, token, client, db>>
    /\ UNCHANGED varsB62

NextConcurrent ==
    \/ Tick
    \/ NewSharedClient
    \/ SaveSharedSession
    \/ DeleteSession
    \/ \E p \in Procs : CallBegin(p)
    \/ \E p \in Procs : CallRun(p)
    \/ \E p \in Procs : CallQuery(p)
    \/ \E p \in Procs : CallScan(p)
    \/ \E p \in Procs : CallReturn(p)

SpecConcurrent == InitConcurrent /\ [][NextConcurrent]_vars

\* what the call returns when it is the only one made on a client just
\* built, with the clock and the table the call read
RunAlone(call) ==
    IF call.op = "GetRawSession"
    THEN OutcomeOfGetRawSession(
             GetRawSession(SharedClient, call.table, call.arg, call.now, call.dbErr))
    ELSE SignerCall(SharedClient, call.op, call.arg, call.now)

-----------------------------------------------------------------------------
(* Tokens made by hand: the holder of a key signs any value, with any      *)
(* timestamp, and tokens arrive with their signature altered.              *)

\* value:ts:signature under ds, the signature altered when tamper
Forge(ds, value, ts, tamper) ==
    (value \o ds.Sep \o ts) \o ds.Sep \o
        (IF tamper THEN TamperLast(signature(ds, value \o ds.Sep \o ts))
         ELSE signature(ds, value \o ds.Sep \o ts))

\* the seconds a token made in the future is ahead of the clock's start
AheadSeconds == 10

Ahead == TimeUnix(StartSec + AheadSeconds)

\* the timestamps of the tokens: the clock's start, 1970, the future, and
\* "!!", which is no base-62 number
ForgedTimestamps ==
    {[ts |-> "now", s |-> b62Encode(I64(StartTime.sec)), at |-> StartTime],
     [ts |-> "old", s |-> b62Encode(I64(LongAgo.sec)), at |-> LongAgo],
     [ts |-> "future", s |-> b62Encode(I64(Ahead.sec)), at |-> Ahead],
     [ts |-> "bad", s |-> <<33, 33>>, at |-> StartTime]}

\* the values of the tokens: the base64 of a session object, "!" that is no
\* base64, and a compression marker on data that is no zlib stream
ForgedValues ==
    {[payload |-> "ok", s |-> b64Encode(JsonMarshal(Identity42).data)],
     [payload |-> "bad", s |-> <<33>>],
     [payload |-> "bad", s |-> <<46, 65, 65, 65, 65>>]}

\* the tokens: how each was made, and the token
ForgedTokens ==
    {[s |-> Forge(ds, v.s, t.s, tamper), ds |-> ds, value |-> v.s,
      payload |-> v.payload, ts |-> t.ts, at |-> t.at, sig |-> ~tamper] :
        ds \in {NewDjangoSigner(<<107, 49>>), DataSigner},
        v \in ForgedValues, t \in ForgedTimestamps, tamper \in BOOLEAN}

InitForged ==
    /\ IdleSigner
    /\ IdleB62
    /\ IdleClient

\* a token arrives; those made under the signer of session objects are
\* handed to UnsignObject, the others to UnsignTimestamp
ReceiveForged ==
    \E d \in ForgedTokens :
        /\ Idle
        /\ token = NoToken
        /\ token' = [NoToken EXCEPT
                         !.kind = IF d.ds = DataSigner THEN "object" ELSE "timestamp",
                         !.s = d.s, !.ds = d.ds, !.at = d.at, !.value = d.value]
        /\ UNCHANGED <<now, res>>
        /\ UNCHANGED <<varsB62, varsClient>>

NextForged ==
    \/ Tick
    \/ ReceiveForged
    \/ UnsignTimestampCall
    \/ UnsignObjectCall
    \/ Return

SpecForged == InitForged /\ [][NextForged]_vars

\* UnsignTimestamp or UnsignObject has returned from the token d
Unsigned(d) == res.op \in {"UnsignTimestamp", "UnsignObject"} /\ res.input = d.s

\* the signature of d is the one the signer of the call gives
SignatureGood(d) == d.sig /\ res.ds = d.ds

\* the age of d at the call exceeds the max age of the call
TooOld(d) ==
    /\ ~res.maxAge.nil
    /\ DurationGt(TimeSub(res.now, TimeUnix(d.at.sec)), res.maxAge.d)

DecodeErrors ==
    {"base64 decode error", "zlib decompress error", "zlib read error",
     "json decode error"}

\* C24: the first check that fails is the one reported: the signature, then
\* the timestamp, then the age, then the decoding of the payload, which only
\* a token that passed the three checks before reaches.
C24_FirstFailureReported ==
    \A d \in ForgedTokens :
        Unsigned(d) =>
            IF ~SignatureGood(d) THEN res.err = NewError("signature does not match")
            ELSE IF d.ts = "bad"
            THEN res.err # Nil /\ res.err[1] = "invalid timestamp"
            ELSE IF TooOld(d) THEN res.err = NewError("signature age %v > %v")
            ELSE IF res.op = "UnsignTimestamp"
            THEN res.err = Nil /\ res.value = d.value
            ELSE IF d.payload = "ok" THEN res.err = Nil /\ res.obj = Identity42
            ELSE res.err # Nil /\ res.err[1] \in DecodeErrors

\* a token with a wrong signature, a timestamp that is no number and a
\* payload that is no base64 has been reported for its signature
C24_Witness ==
    \E d \in ForgedTokens :
        /\ Unsigned(d)
        /\ res.op = "UnsignObject"
        /\ res.ds = d.ds
        /\ ~d.sig
        /\ d.ts = "bad"
        /\ d.payload = "bad"
        /\ res.err = NewError("signature does not match")

\* a token too old whose payload is no base64 has been reported for its age
C24_WitnessAge ==
    \E d \in ForgedTokens :
        /\ Unsigned(d)
        /\ res.op = "UnsignObject"
        /\ SignatureGood(d)
        /\ d.ts = "old"
        /\ d.payload = "bad"
        /\ res.err = NewError("signature age %v > %v")

-----------------------------------------------------------------------------
(* The age of one token over time: a behaviour of SpecForged follows one   *)
(* token while the clock advances.                                         *)

\* a call with the max age m has returned
CalledWith(m) == res.op \in {"UnsignTimestamp", "UnsignObject"} /\ res.maxAge = m

\* a call with the max age m has rejected the token for its age
AgeFailed(m) == CalledWith(m) /\ res.err = NewError("signature age %v > %v")

\* C25: the age is taken at each call, and once a call has rejected the
\* token for its age every later call with the same max age fails as well.
C25_ExpiredStaysExpired ==
    \A m \in AgeArgs : [](AgeFailed(m) => [](CalledWith(m) => res.err # Nil))

\* the token made when the clock started, valid for a second then, has been
\* rejected for its age by a later call
C25_Witness ==
    \E d \in ForgedTokens :
        /\ Unsigned(d)
        /\ SignatureGood(d)
        /\ d.ts = "now"
        /\ d.payload = "ok"
        /\ res.maxAge = AgeOf(Seconds(1))
        /\ DurationGt(TimeSub(res.now, d.at), Seconds(1))
        /\ AgeFailed(res.maxAge)

\* the same token has been accepted by a call with the same max age
C25_WitnessValid ==
    \E d \in ForgedTokens :
        /\ Unsigned(d)
        /\ SignatureGood(d)
        /\ d.ts = "now"
        /\ d.payload = "ok"
        /\ res.maxAge = AgeOf(Seconds(1))
        /\ res.now = TimeAfterTick(StartTime)
        /\ res.err = Nil

-----------------------------------------------------------------------------
(* Identity values that are no identity *)

\* the decoder was given d, signed under the decoder's key when the clock
\* started
DecodedReceived(d) ==
    /\ Decoded
    /\ d.s = res.input
    /\ d.ds = res.ds
    /\ d.at = StartTime
    /\ res.maxAge.nil

HasIdentity(d) == ~d.obj.nil /\ StrAuthUserID \in DOMAIN d.obj.m

\* the identity of d is a number with a fraction
NonIntegralIdentity(d) ==
    /\ HasIdentity(d)
    /\ d.obj.m[StrAuthUserID].t = "float64"
    /\ d.obj.m[StrAuthUserID].d > 0

\* the identity of d is neither a string nor a number, or d is an object
\* without identity
NoIdentity(d) ==
    \/ ~d.obj.nil /\ StrAuthUserID \notin DOMAIN d.obj.m
    \/ HasIdentity(d) /\ d.obj.m[StrAuthUserID].t \notin {"string", "float64", "int"}

Refused == res.err # Nil /\ res.id = <<>>

\* C26: an identity that is a number with a fraction is not returned as an
\* identity string, and an identity of another type or an absent identity
\* key yields an error and no identity.
C26_OnlyIntegralIdentities ==
    \A d \in ReceivedData :
        (DecodedReceived(d) /\ (NonIntegralIdentity(d) \/ NoIdentity(d))) => Refused

\* an identity of another type or an absent identity key yields an error and
\* no identity
C26_OtherTypesRefused ==
    \A d \in ReceivedData : (DecodedReceived(d) /\ NoIdentity(d)) => Refused

\* the identity 1.5 has been returned as "2"
C26_Witness ==
    \E d \in ReceivedData :
        /\ DecodedReceived(d)
        /\ NonIntegralIdentity(d)
        /\ d.obj.m[StrAuthUserID] = VFloat(15, 1)
        /\ res.err = Nil
        /\ res.id = <<50>>

-----------------------------------------------------------------------------
(* One query per call, and nothing kept from one call to the next *)

\* GetRawSession has returned from a key it looks up
LookedUp ==
    /\ res.op = "GetRawSession"
    /\ res.input # <<>>
    /\ Len(res.input) <= 255

\* the store holds, as the call is made, a session under the key looked up
\* that has not expired
LiveRow(row) ==
    /\ row \in db
    /\ row.SessionKey = res.input
    /\ ~Earlier(row.ExpireDate, res.now)

\* C27: a call with a well-formed key makes exactly one query, and its
\* outcome is that of the store as it is at the call: it returns a record
\* exactly when the store answers and holds a live session under the key,
\* whatever earlier calls met. A session deleted or expired since an earlier
\* call is not returned, and an earlier failure of the store changes nothing.
C27_OneQueryNoMemory ==
    LookedUp
        => /\ res.queries = 1
           /\ IsValidUndecoded <=> (res.dbErr = Nil /\ \E row \in db : LiveRow(row))
           /\ IsValidUndecoded => \E row \in db : LiveRow(row) /\ res.session = RawSessionOf(row)
           /\ res.dbErr # Nil => IsStoreFailed

\* a session that was live when the clock started is no longer returned
C27_Witness ==
    /\ LookedUp
    /\ res.queries = 1
    /\ res.dbErr = Nil
    /\ \E row \in db :
           /\ row.SessionKey = res.input
           /\ Earlier(StartTime, row.ExpireDate)
           /\ Earlier(row.ExpireDate, res.now)
    /\ IsExpired

-----------------------------------------------------------------------------
(* The base-62 decoder on strings of every kind *)

MaxB62Len == 3

\* '0', '1', 'z', '-' and '!', which is no digit
B62Chars == {48, 49, 122, 45, 33}

\* "AzL8n0Y58m7" is 2^63 - 1, "AzL8n0Y58m8" is 2^63 and "LygHa16AHYL" is
\* 2^64 + 5
StrMaxInt64 == <<65, 122, 76, 56, 110, 48, 89, 53, 56, 109, 55>>

StrPastMaxInt64 == <<65, 122, 76, 56, 110, 48, 89, 53, 56, 109, 56>>

StrPastUint64 == <<76, 121, 103, 72, 97, 49, 54, 65, 72, 89, 76>>

\* the strings decoded: the short ones, and numbers at the end of the range
\* and beyond it
B62Strings ==
    UNION {[1..n -> B62Chars] : n \in 0..MaxB62Len} \cup
    {StrMaxInt64, StrPastMaxInt64, StrPastUint64}

InitB62Strings ==
    /\ IdleSigner
    /\ IdleB62
    /\ IdleClient

\* b62Decode is called on a string
B62DecodeStringCall ==
    \E s \in B62Strings :
        /\ b62pc = "idle"
        /\ b62pc' = "decoded"
        /\ b62enc' = s
        /\ b62dec' = b62Decode(s)
        /\ UNCHANGED b62n
        /\ UNCHANGED <<varsSigner, varsClient>>

\* the caller takes the result
B62Return ==
    /\ b62pc = "decoded"
    /\ b62pc' = "idle"
    /\ b62enc' = <<>>
    /\ b62dec' = NoDecode
    /\ UNCHANGED b62n
    /\ UNCHANGED <<varsSigner, varsClient>>

NextB62Strings == B62DecodeStringCall \/ B62Return

SpecB62Strings == InitB62Strings /\ [][NextB62Strings]_vars

\* the digits of s, its sign left out
B62DigitsOf(s) == IF Len(s) > 0 /\ s[1] = 45 THEN SubSeq(s, 2, Len(s)) ELSE s

\* s is a number in base 62: an optional sign and at least one digit
IsB62Number(s) ==
    /\ B62DigitsOf(s) # <<>>
    /\ \A i \in 1..Len(B62DigitsOf(s)) :
           \E k \in 1..62 : base62Alphabet[k] = B62DigitsOf(s)[i]

\* the integer the digits d denote
RECURSIVE B62Value(_)
B62Value(d) ==
    IF d = <<>> THEN 0
    ELSE 62 * B62Value(SubSeq(d, 1, Len(d) - 1))
             + (CHOOSE k \in 0..61 : base62Alphabet[k + 1] = d[Len(d)])

\* the int64 the number s denotes, for s within the range
B62Denoted(s) ==
    IF s = StrMaxInt64 THEN MaxInt64
    ELSE IF s[1] = 45 THEN I64(-B62Value(B62DigitsOf(s)))
    ELSE I64(B62Value(s))

\* C28: b62Decode returns an error or the exact integer its argument
\* denotes: a string that is no number, the empty string and "-" among them,
\* and a number beyond the int64 range are rejected.
C28_ErrorOrExactInteger ==
    b62pc = "decoded"
        => \/ b62dec.err # Nil
           \/ /\ IsB62Number(b62enc)
              /\ b62enc \notin {StrPastMaxInt64, StrPastUint64}
              /\ b62dec.n = B62Denoted(b62enc)

\* what is a number within the range decodes to the integer it denotes, and
\* a string with a character that is no digit is rejected
C28_NumbersDecodeExactly ==
    b62pc = "decoded"
        => /\ (IsB62Number(b62enc) /\ b62enc \notin {StrPastMaxInt64, StrPastUint64})
                  => (b62dec.err = Nil /\ b62dec.n = B62Denoted(b62enc))
           /\ (\E i \in 1..Len(B62DigitsOf(b62enc)) : B62DigitsOf(b62enc)[i] \in {45, 33})
                  => b62dec.err # Nil

\* 2^64 + 5 has been decoded to 5
C28_Witness ==
    /\ b62pc = "decoded"
    /\ b62enc = StrPastUint64
    /\ b62dec.err = Nil
    /\ b62dec.n = I64(5)

\* the empty string has been decoded to 0
C28_WitnessEmpty ==
    /\ b62pc = "decoded"
    /\ b62enc \in {<<>>, <<45>>}
    /\ b62dec.err = Nil
    /\ b62dec.n = Zero64

-----------------------------------------------------------------------------
(* Tokens dated in the future: among the tokens of SpecForged are those    *)
(* signed with a timestamp AheadSeconds after the clock's start.           *)

\* UnsignTimestamp has returned from the token d, validly signed and dated
\* after the clock of the call, with a max age
FutureDated(d) ==
    /\ Unsigned(d)
    /\ res.op = "UnsignTimestamp"
    /\ SignatureGood(d)
    /\ d.ts = "future"
    /\ Earlier(res.now, d.at)
    /\ ~res.maxAge.nil

\* C29: with a max age, UnsignTimestamp rejects a validly signed token whose
\* timestamp is in the future of the clock.
C29_FutureDatedRejected ==
    \A d \in ForgedTokens : FutureDated(d) => res.err # Nil

\* what the code does: the age of such a token is negative, no max age is
\* below it, and the token is accepted with its value
C29_FutureDatedAccepted ==
    \A d \in ForgedTokens : FutureDated(d) => (res.err = Nil /\ res.value = d.value)

\* a token dated in the future has been accepted with a max age of one
\* second, two seconds after the clock's start
C29_Witness ==
    \E d \in ForgedTokens :
        /\ FutureDated(d)
        /\ res.maxAge = AgeOf(Seconds(1))
        /\ DurationGt(TimeSub(res.now, StartTime), Seconds(1))
        /\ res.err = Nil

-----------------------------------------------------------------------------
(* Updating session data: received session data is decoded, updated and    *)
(* signed again by UpdateSessionDataWithSalt.                              *)

\* the loop over updates: a nil value deletes the key, any other value is
\* assigned, and an assignment to an entry of the nil map is a run-time panic
ApplyUpdates(existingData, updates) ==
    IF existingData.nil /\ (\E k \in DOMAIN updates.m : updates.m[k] # VNil)
    THEN [obj |-> existingData, panic |-> NewError("assignment to entry in nil map")]
    ELSE IF existingData.nil THEN [obj |-> existingData, panic |-> Nil]
    ELSE [obj |-> MapOf([k \in (DOMAIN existingData.m \cup DOMAIN updates.m)
                                   \ {j \in DOMAIN updates.m : updates.m[j] = VNil} |->
                             IF k \in DOMAIN updates.m THEN updates.m[k]
                             ELSE existingData.m[k]]),
          panic |-> Nil]

\* the updated data signed again: r is the outcome of SignObject
UpdateSessionDataSigned(r) == [token |-> r.token, err |-> r.err, panic |-> Nil]

\* a is the outcome of the loop over updates
UpdateSessionDataApplied(ds, a, compress, tnow) ==
    IF a.panic # Nil THEN [token |-> <<>>, err |-> Nil, panic |-> a.panic]
    ELSE UpdateSessionDataSigned(SignObject(ds, a.obj, compress, tnow))

\* u is the outcome of UnsignObject on the existing session data
UpdateSessionDataDecoded(ds, u, updates, compress, tnow) ==
    IF u.err # Nil
    THEN [token |-> <<>>, err |-> Wrap("failed to decode existing session", u.err),
          panic |-> Nil]
    ELSE UpdateSessionDataApplied(ds, ApplyUpdates(u.obj, updates), compress, tnow)

\* UpdateSessionDataWithSalt(sessionData, secretKey, salt, updates, compress):
\* [token, err], or the panic it ended with
UpdateSessionDataWithSalt(sessionData, secretKey, salt, updates, compress, tnow) ==
    UpdateSessionDataDecoded(SessionSigner(secretKey, salt),
                             UnsignObject(SessionSigner(secretKey, salt), sessionData,
                                          NilAge, tnow),
                             updates, compress, tnow)

UpdateSessionData(sessionData, secretKey, updates, tnow) ==
    UpdateSessionDataWithSalt(sessionData, secretKey, SaltSessionStore, updates, TRUE, tnow)

\* the updates maps: nil, a key set, the identity replaced, the identity
\* deleted, a key set and the identity deleted, a key deleted, a Go int, a
\* value encoding/json cannot encode
Updates ==
    {NilMap, MapOf(StrA :> VString(Str42)), MapOf(StrAuthUserID :> VString(Str7)),
     MapOf(StrAuthUserID :> VNil),
     MapOf((StrA :> VFloat(1, 0)) @@ (StrAuthUserID :> VNil)),
     MapOf(StrA :> VNil), MapOf(StrA :> VInt(7)), MapOf(StrA :> VFunc)}

InitUpdate ==
    /\ IdleSigner
    /\ IdleB62
    /\ IdleClient

\* what res holds after UpdateSessionDataWithSalt, called with updates under
\* the signer ds, has ended with r
UpdateResult(ds, updates, r) ==
    [NoRes EXCEPT !.op = "UpdateSessionData", !.ds = ds, !.now = now,
                  !.input = token.s, !.obj = updates, !.value = r.token,
                  !.panic = r.panic, !.err = r.err]

\* UpdateSessionData, and UpdateSessionDataWithSalt without compression
UpdateSessionDataCall ==
    \E secretKey \in Secrets, updates \in Updates, compress \in BOOLEAN :
        /\ Idle
        /\ token.kind = "data"
        /\ res' = UpdateResult(SessionSigner(secretKey, SaltSessionStore), updates,
                               IF compress
                               THEN UpdateSessionData(token.s, secretKey, updates, now)
                               ELSE UpdateSessionDataWithSalt(token.s, secretKey,
                                                              SaltSessionStore, updates,
                                                              FALSE, now))
        /\ UNCHANGED <<now, token>>
        /\ UNCHANGED <<varsB62, varsClient>>

NextUpdate ==
    \/ Tick
    \/ ReceiveSessionData
    \/ UpdateSessionDataCall
    \/ Return

SpecUpdate == InitUpdate /\ [][NextUpdate]_vars

\* UpdateSessionData was called
Updated == res.op = "UpdateSessionData"

\* the object obj is orig with the keys of updates set or removed, and with
\* every other key as it is in orig
OnlyUpdatesApplied(orig, updates, obj) ==
    \A k \in DOMAIN orig.m \cup DOMAIN updates.m \cup DOMAIN obj.m :
        IF k \in DOMAIN updates.m
        THEN IF updates.m[k] = VNil THEN k \notin DOMAIN obj.m
             ELSE k \in DOMAIN obj.m /\ obj.m[k] = updates.m[k]
        ELSE /\ k \in DOMAIN obj.m <=> k \in DOMAIN orig.m
             /\ k \in DOMAIN orig.m => obj.m[k] = orig.m[k]

\* the call on session data that decodes to orig gave a token, and the token
\* decodes to orig with the updates applied
UpdatedAsAsked(orig, out) ==
    /\ res.panic = Nil
    /\ res.err = Nil
    /\ out.err = Nil
    /\ OnlyUpdatesApplied(orig, res.obj, out.obj)

\* the call on session data that failed verification gave an error and no
\* token
UpdateRefused ==
    /\ res.panic = Nil
    /\ res.err # Nil
    /\ res.value = <<>>

\* C30: on session data that verifies, with updates of values JSON holds,
\* the token returned decodes to the original object with each key of
\* updates set to its new value, or removed when the value is nil, and every
\* other key unchanged; on session data that fails verification an error and
\* no token are returned.
C30_OnlyUpdatedKeysChange ==
    Updated =>
        IF UnsignObject(res.ds, res.input, NilAge, res.now).err # Nil THEN UpdateRefused
        ELSE IsDecodedObject(res.obj)
                 => UpdatedAsAsked(UnsignObject(res.ds, res.input, NilAge, res.now).obj,
                                   UnsignObject(res.ds, res.value, NilAge, res.now))

\* the session data decodes to the nil map and updates assigns a key
AssignsToNilMap ==
    /\ UnsignObject(res.ds, res.input, NilAge, res.now).err = Nil
    /\ UnsignObject(res.ds, res.input, NilAge, res.now).obj.nil
    /\ \E k \in DOMAIN res.obj.m : res.obj.m[k] # VNil

\* what the code does: the same, except that the call panics when the
\* session data decodes to the nil map and updates assigns a key
C30_PanicsOnNilMap ==
    Updated =>
        IF UnsignObject(res.ds, res.input, NilAge, res.now).err # Nil THEN UpdateRefused
        ELSE IF AssignsToNilMap THEN res.panic # Nil /\ res.err = Nil /\ res.value = <<>>
        ELSE IsDecodedObject(res.obj)
                 => UpdatedAsAsked(UnsignObject(res.ds, res.input, NilAge, res.now).obj,
                                   UnsignObject(res.ds, res.value, NilAge, res.now))

\* the session data signed from the nil map was to get the identity "7",
\* and the call panicked
C30_Witness ==
    /\ Updated
    /\ token.obj = NilMap
    /\ token.ds = res.ds
    /\ res.obj = MapOf(StrAuthUserID :> VString(Str7))
    /\ res.panic # Nil

\* the identity was deleted and a key set: the token returned holds the key
\* and no identity
C30_WitnessUpdated ==
    /\ Updated
    /\ token.obj = Identity42
    /\ res.obj = MapOf((StrA :> VFloat(1, 0)) @@ (StrAuthUserID :> VNil))
    /\ res.err = Nil
    /\ UnsignObject(res.ds, res.value, NilAge, res.now).obj = MapOf(StrA :> VFloat(1, 0))

====
